---- MODULE Spec2Model ----
(***************************************************************************)
(* A model of the configuration pipeline of the raiswell site: the runtime *)
(* config facade (XMLConfigParser.loadConfig / loadFromXML), the feature-  *)
(* toggle resolver (isFeatureEnabled), the accessor surface, the          *)
(* FeatureManager with its developer panel, and the document parser.       *)
(*                                                                         *)
(* JavaScript is single-threaded: an async function runs without           *)
(* interruption from one await to the next, so every action below is one   *)
(* such run-to-completion segment of the code.                             *)
(***************************************************************************)
EXTENDS Integers, Sequences, FiniteSets, TLC

VARIABLES
    \* ---- XMLConfigParser (the facade singleton window.siteConfig) ----
    config,             \* this.config
    loaded,             \* this.loaded
    useCompiledConfig,  \* this.useCompiledConfig
    \* ---- the page around it ----
    compiledLoaded,     \* window.compiledConfig && window.compiledConfig.loaded
    rootStyle,          \* id of the configuration whose tokens are on :root, 0 if none
    calls,              \* the loadConfig() invocations of this page load
    fetchCount,         \* fetch('config/site-config.xml') calls issued
    parseCount,         \* DOMParser.parseFromString passes run
    nextId,             \* allocator of object identities
    provLog,            \* history: what the facade's flags showed when a path ended
    \* ---- the feature-toggle resolver on a loaded configuration ----
    tgToggles,          \* this.config['feature-toggles'] (undefined when there is none)
    tgCompiled,         \* this.useCompiledConfig && window.compiledConfig
    tgCalled,           \* isFeatureEnabled has been called
    tgPath,             \* featurePath.split('.') of the last call
    tgResult,           \* what the last call returned
    \* ---- the accessor surface on a loaded (or not yet loaded) configuration ----
    acConfig,           \* this.config as a tree of JavaScript values
    acCompiled,         \* this.useCompiledConfig && window.compiledConfig
    acOptional,         \* the artifact defines getDesign, getTopBar, getHeroSlider, getPageConfig
    acCall,             \* the accessor called and its arguments
    acResult,           \* what it returned, or the TypeError it threw
    \* ---- FeatureManager (window.featureManager) and its developer panel ----
    fmInitialized,      \* this.initialized (this.xmlParser is set exactly then)
    fmToggles,          \* this.xmlParser.config['feature-toggles']
    fmCompiled,         \* the parser's useCompiledConfig && window.compiledConfig
    fmPage,             \* getCurrentPage()
    fmDisplay,          \* style.display of the gated elements of the document
    fmCall,             \* the toggleFeature call of the panel and how it ended
    \* ---- the document parser on one source element ----
    psNode,             \* the element handed to the parser
    psFn,               \* the parser function that ran, "none" before
    psResult,           \* what it returned, or the TypeError it threw
    \* ---- the build step (build.bat) ----
    bdSource,           \* the source document on disk
    bdArtifact,         \* the generated artifact on disk, null before the first build
    bdPython,           \* python is installed and in PATH
    bdLog,              \* history: the runs of build.bat so far
    \* ---- page start-up ----
    pgNow,              \* milliseconds since DOMContentLoaded, at the last timer
    pgEnv,              \* the page: artifact and feature-manager.js included or not,
                        \* the document's chatbot toggle, the URL parameters
    pgLoads,            \* the two loadConfig() promises: "pending" or "settled"
    pgConfig,           \* window.xmlParser.config (null until loaded is true)
    pgFM,               \* window.featureManager
    pgSM,               \* window.siteManager
    pgChatbot,          \* the chatbot: "timer", "skipped" or "created"
    pgBooking,          \* window.bookingIntegration and its wait for the other systems
    pgCalls,            \* history: the isEnabled calls of the components
    pgErrors,           \* history: what was thrown and which catch took it
    \* ---- the accreditations grid ----
    rnAccreditations,   \* new Date(validUntil) of each item of config.accreditations
    rnNow,              \* new Date()
    rnContainer,        \* the validity class of each item in .accreditations-grid
    rnPrevious,         \* history: the grid before the last render
    rnRenderedAt,       \* history: the date of the last render, -1 before the first
    \* ---- the sliders ----
    heroSlider,         \* the HeroSlider object and its interval timers
    testimonialsSlider, \* a TestimonialsSlider instance and its interval timers
    simpleSlider,       \* the slider of static slides: its handle and interval timers
    docHidden,          \* document.hidden
    slLast,             \* history: the last event of the sliders
    \* ---- the form system ----
    foToday,            \* new Date() at midnight, as a day number
    foSubmits,          \* submit events so far
    foPending,          \* handleFormSubmission calls waiting in processSubmission
    submissions,        \* FormManager.submissions
    foValidated,        \* history: the data validateForm found valid
    foRejected,         \* history: how often showValidationErrors ran
    \* ---- the booking calendar ----
    availableSlots,     \* CalendarManager.availableSlots
    appointments,       \* CalendarManager.appointments (the values of the map)
    caSelected,         \* selectedDate, selectedTime ("null" or a key), selectedAppointmentType
    caPage,             \* the rendered time slots, what is shown, the Confirm button
    caConfirming        \* the booking of the confirmBooking call waiting in createBooking

loadVars == <<config, loaded, useCompiledConfig, compiledLoaded, rootStyle,
              calls, fetchCount, parseCount, nextId, provLog>>

toggleVars == <<tgToggles, tgCompiled, tgCalled, tgPath, tgResult>>

accessVars == <<acConfig, acCompiled, acOptional, acCall, acResult>>

panelVars == <<fmInitialized, fmToggles, fmCompiled, fmPage, fmDisplay, fmCall>>

parseVars == <<psNode, psFn, psResult>>

buildVars == <<bdSource, bdArtifact, bdPython, bdLog>>

pageVars == <<pgNow, pgEnv, pgLoads, pgConfig, pgFM, pgSM, pgChatbot, pgBooking,
              pgCalls, pgErrors>>

renderVars == <<rnAccreditations, rnNow, rnContainer, rnPrevious, rnRenderedAt>>

sliderVars == <<heroSlider, testimonialsSlider, simpleSlider, docHidden, slLast>>

formVars == <<foToday, foSubmits, foPending, submissions, foValidated, foRejected>>

calendarVars == <<availableSlots, appointments, caSelected, caPage, caConfirming>>

vars == <<loadVars, toggleVars, accessVars, panelVars, parseVars, buildVars,
          pageVars, renderVars, sliderVars, formVars, calendarVars>>

\* a step of subsystem g leaves the state of the other subsystems alone
OthersUnchanged(g) ==
    /\ g # "load" => UNCHANGED loadVars
    /\ g # "toggle" => UNCHANGED toggleVars
    /\ g # "access" => UNCHANGED accessVars
    /\ g # "panel" => UNCHANGED panelVars
    /\ g # "parse" => UNCHANGED parseVars
    /\ g # "build" => UNCHANGED buildVars
    /\ g # "page" => UNCHANGED pageVars
    /\ g # "render" => UNCHANGED renderVars
    /\ g # "slider" => UNCHANGED sliderVars
    /\ g # "form" => UNCHANGED formVars
    /\ g # "calendar" => UNCHANGED calendarVars

-----------------------------------------------------------------------------
(* Bounds *)

\* slides of a slider
MaxSlides == 3

\* submit events of one page visit
MaxSubmits == 2

\* the days a preferred date is taken from
MaxDay == 3

\* bookings of one page visit
MaxBookings == 2

\* loadConfig() invocations in one page load (init(), SiteManager.init, ...)
MaxCalls == 3

Callers == 1..MaxCalls

\* segments in a feature path
MaxPathLen == 2

\* child elements of one element of the source document
MaxChildren == 3

\* runs of build.bat
MaxRuns == 3

\* the latest date the clock reaches
MaxClock == 3

-----------------------------------------------------------------------------
(* Configurations.  A Configuration object is modelled by its identity     *)
(* (a fresh id per object literal / parse result) and its top-level keys.  *)

\* the keys parseXMLToObject assigns
AllSections ==
    {"feature-toggles", "design", "top-bar", "hero-slider", "company",
     "branding", "services", "accreditations", "gallery", "testimonials",
     "chatbot", "calendar", "seo", "pages", "ui", "forms",
     "business-policies", "service-areas"}

\* the keys of the object literal getFallbackConfig returns
FallbackSections ==
    {"feature-toggles", "design", "top-bar", "hero-slider", "company",
     "branding", "services", "accreditations", "testimonials", "gallery",
     "seo"}

\* this.config = null
Null == [id |-> 0, keys |-> {}]

\* window.compiledConfig.config: the full parsed tree, built once by the artifact
CompiledConfigId == 1
compiledConfig == [id |-> CompiledConfigId, keys |-> AllSections]

\* window.compiledConfig.applyBrandingStyles(): writes the artifact's tokens on :root
applyBrandingStyles_compiled == compiledConfig.id

\* this.applyBrandingStyles(); this.applyDesignStyles() on a parsed configuration
applyStyles(cfg) == cfg.id

parseXMLToObject(id) == [id |-> id, keys |-> AllSections]

getFallbackConfig(id) == [id |-> id, keys |-> FallbackSections]

Truthy(cfg) == cfg.id # 0

-----------------------------------------------------------------------------
(* loadConfig / loadFromXML *)

\* one loadConfig() invocation: where it stands, what its promise resolved with,
\* and (history) the path it took, the fault injected, whether :root was styled
IdleCall ==
    [pc |-> "idle", result |-> Null, path |-> "none", fault |-> "none",
     styled |-> FALSE]

\* the async function's promise resolves with cfg
Resolve(c, cfg, path, fault, style) ==
    calls' = [calls EXCEPT ![c] =
                [pc |-> "resolved", result |-> cfg, path |-> path,
                 fault |-> fault, styled |-> style # 0]]

LogProvenance(ld, ucc, path) ==
    provLog' = provLog \cup {[ld |-> ld, ucc |-> ucc, path |-> path]}

\* loadFromXML up to its first await: the fetch is issued
loadFromXML_start(c) ==
    /\ fetchCount' = fetchCount + 1
    /\ calls' = [calls EXCEPT ![c].pc = "fetch"]
    /\ UNCHANGED <<config, loaded, useCompiledConfig, rootStyle, parseCount,
                   nextId, provLog>>

\* the catch block of loadFromXML
loadFromXML_catch(c, error) ==
    /\ config' = getFallbackConfig(nextId)
    /\ nextId' = nextId + 1
    /\ loaded' = TRUE
    /\ Resolve(c, config', "fallback", error, rootStyle)
    /\ LogProvenance(TRUE, useCompiledConfig, "fallback")
    /\ UNCHANGED <<useCompiledConfig, rootStyle>>

\* loadConfig: the early return on an already loaded configuration
loadConfig_memo(c) ==
    /\ Resolve(c, config, "memo", "none", rootStyle)
    /\ UNCHANGED <<config, loaded, useCompiledConfig, rootStyle,
                   fetchCount, parseCount, nextId, provLog>>

\* loadConfig: the compiled artifact is adopted and styles the page itself
loadConfig_compiled(c) ==
    /\ config' = compiledConfig
    /\ loaded' = TRUE
    /\ useCompiledConfig' = TRUE
    /\ rootStyle' = applyBrandingStyles_compiled
    /\ Resolve(c, config', "compiled", "none", rootStyle')
    /\ LogProvenance(TRUE, TRUE, "compiled")
    /\ UNCHANGED <<fetchCount, parseCount, nextId>>

\* faulty variant: loadConfig without its early return
loadConfig_NoMemo(c) ==
    /\ calls[c].pc = "idle"
    /\ IF compiledLoaded THEN loadConfig_compiled(c) ELSE loadFromXML_start(c)
    /\ UNCHANGED compiledLoaded

\* faulty variant: loadConfig that never looks at window.compiledConfig
loadConfig_IgnoreCompiled(c) ==
    /\ calls[c].pc = "idle"
    /\ IF loaded /\ Truthy(config) THEN loadConfig_memo(c) ELSE loadFromXML_start(c)
    /\ UNCHANGED compiledLoaded

\* loadConfig(), from the call to its first await or its return
loadConfig(c) ==
    /\ calls[c].pc = "idle"
    /\ IF loaded /\ Truthy(config)
       THEN loadConfig_memo(c)
       ELSE IF compiledLoaded
       THEN loadConfig_compiled(c)
       ELSE loadFromXML_start(c)
    /\ UNCHANGED compiledLoaded

\* await fetch(...) settles; !response.ok throws
FetchOutcomes == {"reject", "http-error", "ok"}

loadFromXML_fetched(c, outcome) ==
    /\ calls[c].pc = "fetch"
    /\ IF outcome = "ok"
       THEN /\ calls' = [calls EXCEPT ![c].pc = "text"]
            /\ UNCHANGED <<config, loaded, useCompiledConfig, rootStyle,
                           nextId, provLog>>
       ELSE loadFromXML_catch(c, outcome)
    /\ UNCHANGED <<compiledLoaded, fetchCount, parseCount>>

\* await response.text() settles; the text is parsed and checked for parsererror
TextOutcomes == {"body-error", "malformed", "well-formed"}

loadFromXML_parsed(c, outcome) ==
    /\ calls[c].pc = "text"
    /\ parseCount' = IF outcome = "body-error" THEN parseCount ELSE parseCount + 1
    /\ IF outcome = "well-formed"
       THEN /\ config' = parseXMLToObject(nextId)
            /\ nextId' = nextId + 1
            /\ loaded' = TRUE
            /\ rootStyle' = applyStyles(config')
            /\ Resolve(c, config', "parsed", "none", rootStyle')
            /\ LogProvenance(TRUE, useCompiledConfig, "parsed")
            /\ UNCHANGED useCompiledConfig
       ELSE loadFromXML_catch(c, outcome)
    /\ UNCHANGED <<compiledLoaded, fetchCount>>


-----------------------------------------------------------------------------
(* JavaScript values, as far as the resolver and the accessors look at them *)

Undef == [t |-> "undefined"]
Bool(b) == [t |-> "boolean", b |-> b]
Str(s) == [t |-> "string", s |-> s]
Obj(f) == [t |-> "object", f |-> f]
\* a function object, such as the inherited Object.prototype.constructor
Fn == [t |-> "function"]
EmptyObj == Obj(<<>>)
JsNull == [t |-> "null"]
Arr(a) == [t |-> "array", a |-> a]
Num(n) == [t |-> "number", nan |-> FALSE, n |-> n]
NaN == [t |-> "number", nan |-> TRUE]
\* the outcome of an evaluation that throws a TypeError
Threw == [t |-> "TypeError"]

\* property names every non-nullish value inherits from its prototype
InheritedKeys == {"constructor"}

\* !!v
JsTruthy(v) ==
    CASE v.t \in {"undefined", "null"} -> FALSE
      [] v.t = "boolean" -> v.b
      [] v.t = "number" -> ~v.nan /\ v.n # 0
      [] v.t = "string" -> v.s # ""
      [] OTHER -> TRUE

\* v[k] for a non-nullish v: own property, else inherited, else undefined
Get(v, k) ==
    IF v.t = "object" /\ k \in DOMAIN v.f THEN v.f[k]
    ELSE IF k \in InheritedKeys THEN Fn
    ELSE Undef

\* v === 'true' || v === true
IsTrue(v) == (v.t = "string" /\ v.s = "true") \/ (v.t = "boolean" /\ v.b)

-----------------------------------------------------------------------------
(* isFeatureEnabled *)

\* faulty variant: the final test accepting only a real boolean false as "disabled"
isFeatureEnabled_final_BoolOnly(current) ==
    IF current.t = "object" /\ Get(current, "enabled").t # "undefined"
    THEN ~(Get(current, "enabled").t = "boolean" /\ ~Get(current, "enabled").b)
    ELSE IsTrue(current)

\* after the loop: object with an enabled property, or the value itself
isFeatureEnabled_final(current) ==
    IF current.t = "object" /\ Get(current, "enabled").t # "undefined"
    THEN IsTrue(Get(current, "enabled"))
    ELSE IsTrue(current)

\* the loop over pathParts
RECURSIVE isFeatureEnabled_walk(_, _)
isFeatureEnabled_walk(current, pathParts) ==
    IF pathParts = <<>>
    THEN isFeatureEnabled_final(current)
    ELSE IF ~JsTruthy(Get(current, Head(pathParts)))
         THEN TRUE
         ELSE isFeatureEnabled_walk(Get(current, Head(pathParts)), Tail(pathParts))

\* window.compiledConfig.isFeatureEnabled: the resolver of spec 4.2 on own keys
RECURSIVE compiled_isFeatureEnabled(_, _)
compiled_isFeatureEnabled(node, pathParts) ==
    IF pathParts = <<>>
    THEN CASE node.t = "boolean" -> node.b
           [] node.t = "object" /\ "enabled" \in DOMAIN node.f ->
                ~(node.f["enabled"] \in {Bool(FALSE), Str("false")})
           [] node.t = "string" -> node.s # "false"
           [] OTHER -> TRUE
    ELSE IF node.t = "object" /\ Head(pathParts) \in DOMAIN node.f
         THEN compiled_isFeatureEnabled(node.f[Head(pathParts)], Tail(pathParts))
         ELSE TRUE

isFeatureEnabled(compiled, toggles, pathParts) ==
    IF compiled
    THEN compiled_isFeatureEnabled(toggles, pathParts)
    ELSE IF ~JsTruthy(toggles)
         THEN TRUE
         ELSE isFeatureEnabled_walk(toggles, pathParts)

\* toggle trees: config['feature-toggles'] missing, or up to three levels deep
\* with leaves in every form the resolver accepts
ToggleTrees ==
    LET Prims == {Bool(TRUE), Bool(FALSE), Str("true"), Str("false")}
        Leaves == Prims \cup {Obj([k \in {"enabled"} |-> p]) : p \in Prims}
                        \cup {EmptyObj}
        Groups == Leaves \cup {Obj([k \in {"instagram-feed"} |-> l]) : l \in Leaves}
    IN  {Undef} \cup
        {Obj(f) : f \in UNION {[D -> Groups] : D \in SUBSET {"chatbot", "gallery-page"}}}

\* featurePath.split('.'): one to MaxPathLen segments
FeaturePaths ==
    UNION {[1..n -> {"chatbot", "gallery-page", "instagram-feed", "lightbox-viewer",
                     "constructor"}] : n \in 1..MaxPathLen}

IsFeatureEnabledCall ==
    /\ ~tgCalled
    /\ \E p \in FeaturePaths :
          /\ tgPath' = p
          /\ tgResult' = isFeatureEnabled(tgCompiled, tgToggles, p)
    /\ tgCalled' = TRUE
    /\ UNCHANGED <<tgToggles, tgCompiled>>
    /\ OthersUnchanged("toggle")


-----------------------------------------------------------------------------
(* The accessor surface.  Each accessor is written as the code computes it *)
(* on the in-memory tree; Threw stands for an uncaught TypeError.          *)

IsThrow(v) == v.t = "TypeError"
IsNullish(v) == v.t \in {"undefined", "null"}
IsArray(v) == v.t = "array"
StrEq(v, s) == v.t = "string" /\ v.s = s

\* v[k]: a TypeError on undefined or null
StrictGet(v, k) ==
    IF IsThrow(v) \/ IsNullish(v) THEN Threw ELSE Get(v, k)

\* v?.[k]
OptGet(v, k) ==
    IF IsThrow(v) THEN Threw ELSE IF IsNullish(v) THEN Undef ELSE Get(v, k)

\* v || d
Or(v, d) == IF IsThrow(v) THEN Threw ELSE IF JsTruthy(v) THEN v ELSE d

\* obj[k] = v on an object
SetKey(obj, k, v) ==
    Obj([x \in DOMAIN obj.f \cup {k} |-> IF x = k THEN v ELSE obj.f[x]])

\* parts.join('.')
RECURSIVE JoinDots(_)
JoinDots(parts) ==
    IF Len(parts) = 1 THEN Head(parts)
    ELSE Head(parts) \o "." \o JoinDots(Tail(parts))

\* faulty variant: the reducer of getValue without its `obj &&` guard
RECURSIVE getValue_reduce_NoGuard(_, _)
getValue_reduce_NoGuard(obj, keys) ==
    IF keys = <<>> THEN obj
    ELSE getValue_reduce_NoGuard(StrictGet(obj, Head(keys)), Tail(keys))

\* path.split('.').reduce((obj, key) => obj && obj[key], this.config)
RECURSIVE getValue_reduce(_, _)
getValue_reduce(obj, keys) ==
    IF keys = <<>> THEN obj
    ELSE getValue_reduce(IF JsTruthy(obj) THEN StrictGet(obj, Head(keys)) ELSE obj,
                         Tail(keys))

getValue_tree(cfg, path) ==
    IF ~JsTruthy(cfg) THEN JsNull ELSE getValue_reduce(cfg, path)

\* return this.config?.[section] || {}
getSection_tree(cfg, section) == Or(OptGet(cfg, section), EmptyObj)

\* return this.config?.[outer]?.[key] || dflt
getNested_tree(cfg, outer, key, dflt) ==
    Or(OptGet(OptGet(cfg, outer), key), dflt)

\* return Array.isArray(list) ? list : [list || {}]
getList_tree(cfg, section) ==
    IF IsArray(OptGet(cfg, section)) THEN OptGet(cfg, section)
    ELSE IF IsThrow(OptGet(cfg, section)) THEN Threw
    ELSE Arr(<<Or(OptGet(cfg, section), EmptyObj)>>)

\* return this.config?.ui?.[group]?.[key] || key
getUiText_tree(cfg, group, key) ==
    Or(OptGet(OptGet(OptGet(cfg, "ui"), group), key), Str(key))

\* the loop of getMessage over pathParts
RECURSIVE getMessage_walk(_, _, _)
getMessage_walk(current, pathParts, messagePath) ==
    IF IsThrow(current) THEN Threw
    ELSE IF pathParts = <<>> THEN Or(current, Str(messagePath))
    ELSE IF ~JsTruthy(current) \/ ~JsTruthy(StrictGet(current, Head(pathParts)))
         THEN Str(messagePath)
         ELSE getMessage_walk(StrictGet(current, Head(pathParts)), Tail(pathParts),
                              messagePath)

getMessage_tree(cfg, pathParts) ==
    getMessage_walk(OptGet(OptGet(cfg, "ui"), "messages"), pathParts,
                    JoinDots(pathParts))

\* array.find(c => c.ui)
RECURSIVE find_ui(_)
find_ui(a) ==
    IF a = <<>> THEN Undef
    ELSE IF IsThrow(StrictGet(Head(a), "ui")) THEN Threw
    ELSE IF JsTruthy(StrictGet(Head(a), "ui")) THEN Head(a)
    ELSE find_ui(Tail(a))

getChatbotUI_tree(cfg) ==
    IF IsArray(OptGet(cfg, "chatbot"))
    THEN Or(OptGet(find_ui(StrictGet(cfg, "chatbot").a), "ui"), EmptyObj)
    ELSE Or(OptGet(OptGet(cfg, "chatbot"), "ui"), EmptyObj)

\* fields.find(field => field.name === fieldName)
RECURSIVE find_name(_, _)
find_name(a, fieldName) ==
    IF a = <<>> THEN Undef
    ELSE IF IsThrow(StrictGet(Head(a), "name")) THEN Threw
    ELSE IF StrEq(StrictGet(Head(a), "name"), fieldName) THEN Head(a)
    ELSE find_name(Tail(a), fieldName)

\* Array.isArray(form.fields) ? form.fields : [form.fields]
getFormFields_array(form) ==
    IF IsArray(StrictGet(form, "fields")) THEN StrictGet(form, "fields").a
    ELSE <<StrictGet(form, "fields")>>

getFormField_tree(cfg, formName, fieldName) ==
    IF IsThrow(OptGet(OptGet(OptGet(cfg, "forms"), formName), "fields")) THEN Threw
    ELSE IF ~JsTruthy(OptGet(OptGet(OptGet(cfg, "forms"), formName), "fields"))
    THEN EmptyObj
    ELSE Or(find_name(getFormFields_array(OptGet(OptGet(cfg, "forms"), formName)),
                      fieldName),
            EmptyObj)

getFormFields_tree(cfg, formName) ==
    IF IsThrow(OptGet(OptGet(OptGet(cfg, "forms"), formName), "fields")) THEN Threw
    ELSE IF ~JsTruthy(OptGet(OptGet(OptGet(cfg, "forms"), formName), "fields"))
    THEN Arr(<<>>)
    ELSE Arr(getFormFields_array(OptGet(OptGet(cfg, "forms"), formName)))

\* parseInt(v): the numeric strings the configurations below use
DefaultInterval == 5000
ParseInt(v) ==
    CASE v.t = "number" -> v
      [] StrEq(v, "3000") -> Num(3000)
      [] StrEq(v, "5000") -> Num(5000)
      [] OTHER -> NaN

\* getHeroSlider on the tree: the object it returns (and has written to).
\* Class bodies are strict code, so writing a property on a primitive throws.
getHeroSlider_tree(cfg) ==
    LET hero0 == getSection_tree(cfg, "hero-slider")
        slide == Get(Get(hero0, "slides"), "slide")
        \* the normalisation of heroConfig.slides
        hero1 == IF ~JsTruthy(Get(hero0, "slides")) THEN hero0
                 ELSE IF JsTruthy(slide)
                 THEN SetKey(hero0, "slides",
                             IF IsArray(slide) THEN slide ELSE Arr(<<slide>>))
                 ELSE IF ~IsArray(Get(hero0, "slides"))
                 THEN SetKey(hero0, "slides", Arr(<<Get(hero0, "slides")>>))
                 ELSE hero0
        \* h[k] = h[k] === 'true' || h[k] === true || h[xmlKey] === 'true'
        Flag(h, k, xmlKey) ==
            SetKey(h, k, Bool(IsTrue(Get(h, k)) \/ StrEq(Get(h, xmlKey), "true")))
        hero4 == Flag(Flag(Flag(hero1, "autoPlay", "auto-play"),
                           "showArrows", "show-arrows"),
                      "showDots", "show-dots")
    IN  IF IsThrow(hero0) THEN Threw
        ELSE IF hero0.t # "object" THEN Threw
        ELSE SetKey(hero4, "interval",
                    Or(ParseInt(Get(hero4, "interval")), Num(DefaultInterval)))

\* this.config after getHeroSlider: heroConfig is the section object itself
\* whenever the section is there, so the writes land in the tree
getHeroSlider_config(cfg) ==
    IF ~IsNullish(cfg) /\ JsTruthy(OptGet(cfg, "hero-slider"))
       /\ ~IsThrow(getHeroSlider_tree(cfg))
    THEN SetKey(cfg, "hero-slider", getHeroSlider_tree(cfg))
    ELSE cfg

\* faulty variant: getTemplate rendering a template without the artifact
getTemplate_tree_Rendered(templateName, index) == Str("<" \o templateName \o ">")

\* getTemplate when there is no artifact: return ''
getTemplate_tree(templateName, index) == Str("")

\* the accessors, by name, reading the in-memory tree
TreeAccessor(fn, cfg, args) ==
    CASE fn = "getValue" -> getValue_tree(cfg, args)
      [] fn = "getDesign" -> getSection_tree(cfg, "design")
      [] fn = "getTopBar" -> getSection_tree(cfg, "top-bar")
      [] fn = "getHeroSlider" -> getHeroSlider_tree(cfg)
      [] fn = "getCompany" -> getSection_tree(cfg, "company")
      [] fn = "getServices" -> getList_tree(cfg, "services")
      [] fn = "getTestimonials" -> getList_tree(cfg, "testimonials")
      [] fn = "getAccreditations" -> getList_tree(cfg, "accreditations")
      [] fn = "getPageConfig" -> getNested_tree(cfg, "pages", args[1], EmptyObj)
      [] fn = "getServiceAreas" -> getSection_tree(cfg, "service-areas")
      [] fn = "getBusinessPolicies" -> getSection_tree(cfg, "business-policies")
      [] fn = "getFormConfig" -> getNested_tree(cfg, "forms", args[1], EmptyObj)
      [] fn = "getTemplate" -> getTemplate_tree(args[1], args[2])
      [] fn = "getAllTemplates" -> Arr(<<>>)
      [] fn = "getNavigation" -> getNested_tree(cfg, "ui", "navigation", EmptyObj)
      [] fn = "getButtonText" -> getUiText_tree(cfg, "buttons", args[1])
      [] fn = "getMessage" -> getMessage_tree(cfg, args)
      [] fn = "getLabel" -> getUiText_tree(cfg, "labels", args[1])
      [] fn = "getChatbotUI" -> getChatbotUI_tree(cfg)
      [] fn = "getFormField" -> getFormField_tree(cfg, args[1], args[2])
      [] fn = "getFormFields" -> getFormFields_tree(cfg, args[1])
      [] fn = "isFeatureEnabled" ->
            Bool(IF ~JsTruthy(cfg) THEN TRUE
                 ELSE isFeatureEnabled(FALSE, Get(cfg, "feature-toggles"), args))

\* the documented empty value of each accessor (spec 4.5)
EmptyValue(fn, args) ==
    CASE fn \in {"getServices", "getTestimonials", "getAccreditations",
                 "getAllTemplates", "getFormFields"} -> Arr(<<>>)
      [] fn = "getTemplate" -> Str("")
      [] fn \in {"getButtonText", "getLabel"} -> Str(args[1])
      [] fn = "getMessage" -> Str(JoinDots(args))
      [] fn = "getValue" -> Undef
      [] fn = "isFeatureEnabled" -> Bool(TRUE)
      [] OTHER -> EmptyObj

\* window.compiledConfig.<accessor>: the artifact's accessor mirrors the facade's
\* and is total; its templates exist only in the artifact
compiled_accessor(fn, cfg, args) ==
    CASE fn = "getTemplate" -> Str("<compiled template>")
      [] fn = "getAllTemplates" -> Arr(<<Str("<compiled template>")>>)
      [] fn = "isFeatureEnabled" ->
            Bool(isFeatureEnabled(TRUE, OptGet(cfg, "feature-toggles"), args))
      [] OTHER -> IF IsThrow(TreeAccessor(fn, cfg, args))
                  THEN EmptyValue(fn, args)
                  ELSE TreeAccessor(fn, cfg, args)

\* faulty variant: a facade that never hands a call to the artifact
Delegates_Never(fn, compiled, optional) == FALSE

\* the test at the head of each accessor: this.useCompiledConfig &&
\* window.compiledConfig, and for four accessors && window.compiledConfig.<name>
Delegates(fn, compiled, optional) ==
    /\ compiled
    /\ fn \in {"getDesign", "getTopBar", "getHeroSlider", "getPageConfig"} => optional

\* an accessor of the facade: delegate to the artifact, else read the tree
Accessor(fn, compiled, cfg, args) ==
    IF compiled THEN compiled_accessor(fn, cfg, args) ELSE TreeAccessor(fn, cfg, args)

\* ---- the configurations the accessors are exercised on ----

\* a configuration with every section in a populated shape, as parseXMLToObject
\* builds it
FullConfig ==
    LET Slide == Obj([image |-> Str("hero1.jpg"), alt |-> Str("Extension")])
        Rich ==
          ("company" :> Obj([name |-> Str("Raiswell"), tagline |-> Str("")])) @@
          ("design" :> Obj([theme |-> Str("kjs-style"),
                            colors |-> Obj([primary |-> Str("#212121")])])) @@
          ("hero-slider" :> Obj([autoPlay |-> Bool(TRUE), interval |-> Num(5000),
                                 slides |-> Arr(<<Slide>>)])) @@
          ("services" :> Arr(<<Obj([id |-> Str("kitchens"), name |-> Str("Kitchens")]),
                               Obj([id |-> Str("bathrooms"), name |-> Str("Bathrooms")])>>)) @@
          ("testimonials" :> Arr(<<Obj([author |-> Str("A")])>>)) @@
          ("accreditations" :> Arr(<<Obj([id |-> Str("fmb")])>>)) @@
          ("pages" :> Obj([index |-> Obj([name |-> Str("index"),
                                          hero |-> Obj([title |-> Str("Welcome")])])])) @@
          ("ui" :> Obj([buttons |-> Obj(("get-quote" :> Str("Get a Quote"))),
                        labels |-> Obj(("call-us" :> Str("Call us"))),
                        navigation |-> Obj([home |-> Str("Home")]),
                        messages |-> Obj([error |-> Obj([general |-> Str("Sorry")])])])) @@
          ("forms" :> Obj(("contact-form" :>
                             Obj([title |-> Str("Contact"),
                                  fields |-> Arr(<<Obj([name |-> JsNull, type |-> Str("text")]),
                                                   Obj([name |-> Str("name"), type |-> Str("text")])>>)])))) @@
          ("chatbot" :> Obj([model |-> Str("gpt"), ui |-> Obj([title |-> Str("Chat")])])) @@
          ("feature-toggles" :> Obj([chatbot |-> Obj([enabled |-> Bool(FALSE)])])) @@
          [s \in AllSections |-> Obj([name |-> Str("x")])]
    IN  Obj([s \in AllSections |-> Rich[s]])

\* not loaded yet (null); empty; the full configuration; the partial ones with
\* a single section; and the full one with one section in another shape: empty
\* because its element is missing, or in the document structure the artifact
\* keeps, or chatbot in its old array form
AccessConfigs ==
    LET Slide == Obj([image |-> Str("hero1.jpg"), alt |-> Str("Extension")])
        Other ==
          ("hero-slider" :>
              {EmptyObj,
               Obj([autoPlay |-> Bool(FALSE), interval |-> Num(5000),
                    slides |-> Arr(<<>>)]),
               Obj(("auto-play" :> Str("true")) @@
                   [interval |-> Str("3000"),
                    slides |-> Obj([slide |-> Arr(<<Slide, Slide>>)])]),
               Obj([slides |-> Obj([slide |-> Slide])])}) @@
          ("services" :> {Arr(<<>>)}) @@
          ("testimonials" :> {Arr(<<>>)}) @@
          ("accreditations" :> {Arr(<<>>)}) @@
          ("ui" :> {EmptyObj,
                    Obj([messages |-> Obj([error |-> Str("")])]),
                    Obj([buttons |-> Obj(("get-quote" :> Str("")))])}) @@
          ("forms" :> {EmptyObj,
                       Obj(("contact-form" :>
                              Obj([title |-> Str("Contact"), fields |-> Arr(<<>>)])))}) @@
          ("chatbot" :> {EmptyObj,
                         Obj([model |-> Str("gpt"), ui |-> EmptyObj]),
                         Arr(<<>>),
                         Arr(<<Obj([model |-> Str("gpt")]),
                               Obj([ui |-> Obj([title |-> Str("Chat")])])>>)}) @@
          [s \in AllSections |-> {EmptyObj}]
    IN  {JsNull, EmptyObj, FullConfig} \cup
        UNION {{Obj((s :> v)) : v \in {FullConfig.f[s]} \cup Other[s]} : s \in AllSections} \cup
        UNION {{SetKey(FullConfig, s, v) : v \in Other[s]} : s \in AllSections}

\* the argument lists an accessor is called with: present and absent keys
AccessorArgs(fn) ==
    LET Paths(segs) == UNION {[1..n -> segs] : n \in 1..MaxPathLen}
    IN  CASE fn = "getValue" ->
               Paths({"company", "name", "ui", "buttons", "nope", "constructor"})
          [] fn = "getMessage" -> Paths({"error", "general", "nope", "constructor"})
          [] fn = "isFeatureEnabled" -> FeaturePaths
          [] fn = "getPageConfig" -> {<<"index">>, <<"nope">>}
          [] fn \in {"getFormConfig", "getFormFields"} -> {<<"contact-form">>, <<"nope">>}
          [] fn = "getFormField" ->
               {<<f, n>> : f \in {"contact-form", "nope"}, n \in {"name", "nope"}}
          [] fn = "getButtonText" -> {<<"get-quote">>, <<"nope">>, <<"constructor">>}
          [] fn = "getLabel" -> {<<"call-us">>, <<"nope">>, <<"constructor">>}
          [] fn = "getTemplate" ->
               {<<n, i>> : n \in {"service-card", "nope"}, i \in 0..1}
          [] fn = "getAllTemplates" -> {<<"service-card">>, <<"nope">>}
          [] OTHER -> {<<>>}

NoCall == [fn |-> "none", args |-> <<>>]

\* one accessor call: its result, and what getHeroSlider writes into the tree
Return(fn, args) ==
    /\ acCall' = [fn |-> fn, args |-> args]
    /\ acResult' = Accessor(fn, Delegates(fn, acCompiled, acOptional), acConfig, args)
    /\ acConfig' = IF fn = "getHeroSlider" /\ ~Delegates(fn, acCompiled, acOptional)
                   THEN getHeroSlider_config(acConfig)
                   ELSE acConfig
    /\ UNCHANGED <<acCompiled, acOptional>>
    /\ OthersUnchanged("access")

\* getValue(path)
GetValue ==
    /\ acCall.fn = "none"
    /\ \E args \in AccessorArgs("getValue") : Return("getValue", args)

\* the accessors of one whole section
GetSection ==
    /\ acCall.fn = "none"
    /\ \E fn \in {"getDesign", "getTopBar", "getHeroSlider", "getCompany",
                   "getServiceAreas", "getBusinessPolicies", "getNavigation",
                   "getChatbotUI"} :
          \E args \in AccessorArgs(fn) : Return(fn, args)

\* the list accessors
GetList ==
    /\ acCall.fn = "none"
    /\ \E fn \in {"getServices", "getTestimonials", "getAccreditations"} :
          \E args \in AccessorArgs(fn) : Return(fn, args)

\* the accessors that take a page, form, field or template name
GetKeyed ==
    /\ acCall.fn = "none"
    /\ \E fn \in {"getPageConfig", "getFormConfig", "getFormField",
                   "getFormFields", "getTemplate", "getAllTemplates"} :
          \E args \in AccessorArgs(fn) : Return(fn, args)

\* the UI string accessors
GetUiString ==
    /\ acCall.fn = "none"
    /\ \E fn \in {"getButtonText", "getLabel", "getMessage"} :
          \E args \in AccessorArgs(fn) : Return(fn, args)

\* isFeatureEnabled on the loaded configuration
IsFeatureEnabledOnConfig ==
    /\ acCall.fn = "none"
    /\ \E args \in AccessorArgs("isFeatureEnabled") : Return("isFeatureEnabled", args)

-----------------------------------------------------------------------------
(* FeatureManager: applying the toggles to the page, and the developer     *)
(* panel's toggleFeature.                                                  *)

\* faulty variant: the manager asks the parser whether it is initialized or not
isEnabled_Unguarded(initialized, compiled, toggles, pathParts) ==
    isFeatureEnabled(compiled, toggles, pathParts)

\* FeatureManager.isEnabled
isEnabled(initialized, compiled, toggles, pathParts) ==
    IF ~initialized THEN TRUE ELSE isFeatureEnabled(compiled, toggles, pathParts)

\* the selector -> feature path maps of applyPageToggles and of the page-specific
\* functions it calls (page "any": applied on every page)
Gates ==
    {[sel |-> "#chatbot-container", path |-> <<"chatbot">>, page |-> "any"],
     [sel |-> ".lightbox", path |-> <<"gallery-page", "lightbox-viewer">>,
      page |-> "gallery"],
     [sel |-> ".instagram-feed", path |-> <<"gallery-page", "instagram-feed">>,
      page |-> "gallery"],
     [sel |-> ".service-price", path |-> <<"services-page", "pricing-display">>,
      page |-> "services"]}

\* the elements of the page a selector matches, in document order, each with its
\* style.display ("none" goes with data-feature-disabled="true"): the chatbot
\* container on every page, the lightbox and the feed on the gallery page, and on
\* the services page one .service-price per service card
PageElements(page) ==
    [sel \in {g.sel : g \in Gates} |->
        CASE sel = "#chatbot-container" -> <<"">>
          [] sel = ".service-price" -> IF page = "services" THEN <<"", "">> ELSE <<>>
          [] OTHER -> IF page = "gallery" THEN <<"">> ELSE <<>>]

\* applyPageToggles: toggleElement on every selector mapped for this page
\* (document.querySelector(selector): the first element that matches, if any)
applyPageToggles(initialized, compiled, toggles, page, display) ==
    [sel \in DOMAIN display |->
        IF /\ \E g \in Gates : g.sel = sel /\ g.page \in {"any", page}
           /\ display[sel] # <<>>
        THEN LET g == CHOOSE g \in Gates : g.sel = sel
             IN  [display[sel] EXCEPT ![1] =
                     IF isEnabled(initialized, compiled, toggles, g.path)
                     THEN "" ELSE "none"]
        ELSE display[sel]]

\* the loop of toggleFeature: current = current[pathParts[i]]
RECURSIVE toggleFeature_walk(_, _)
toggleFeature_walk(current, pathParts) ==
    IF pathParts = <<>> THEN current
    ELSE toggleFeature_walk(StrictGet(current, Head(pathParts)), Tail(pathParts))

\* the tree with the node at an own-key path replaced
RECURSIVE SetAt(_, _, _)
SetAt(node, pathParts, v) ==
    IF pathParts = <<>> THEN v
    ELSE SetKey(node, Head(pathParts),
                SetAt(node.f[Head(pathParts)], Tail(pathParts), v))

\* toggleFeature up to the refresh: the tree afterwards, or Threw.  Class
\* bodies are strict code: writing .enabled on a primitive throws, as does
\* reading a property of undefined; a write on a function leaves the tree alone.
toggleFeature_tree(initialized, toggles, pathParts, enabled) ==
    LET last == pathParts[Len(pathParts)]
        target == StrictGet(toggleFeature_walk(toggles,
                                SubSeq(pathParts, 1, Len(pathParts) - 1)), last)
    IN  IF ~initialized \/ IsThrow(target) THEN Threw
        ELSE IF ~JsTruthy(target) \/ target.t = "function" THEN toggles
        ELSE IF target.t # "object" THEN Threw
        ELSE SetAt(toggles, pathParts, SetKey(target, "enabled", Bool(enabled)))

NoToggle == [path |-> <<>>, enabled |-> FALSE, status |-> "none"]

\* toggleFeature(featurePath, enabled), refreshToggles included
ToggleFeature ==
    /\ fmCall.status = "none"
    /\ \E p \in FeaturePaths \cup {<<"services-page", "pricing-display">>},
          v \in BOOLEAN :
          LET t == toggleFeature_tree(fmInitialized, fmToggles, p, v)
          IN  IF IsThrow(t)
              THEN /\ fmCall' = [path |-> p, enabled |-> v, status |-> "threw"]
                   /\ UNCHANGED <<fmToggles, fmDisplay>>
              ELSE /\ fmCall' = [path |-> p, enabled |-> v, status |-> "done"]
                   /\ fmToggles' = t
                   /\ fmDisplay' = applyPageToggles(fmInitialized, fmCompiled, t,
                                                    fmPage, fmDisplay)
    /\ UNCHANGED <<fmInitialized, fmCompiled, fmPage>>
    /\ OthersUnchanged("panel")

-----------------------------------------------------------------------------
(* The document parser.  An element of the source document is a record     *)
(* [tag, id, text, kids]: its tag name, its id/name attribute (null when   *)
(* it has none), the characters of its own text and its child elements.    *)

Element(tag, id, text, kids) == [tag |-> tag, id |-> id, text |-> text, kids |-> kids]

Whitespace == {" ", "\n"}

\* characters joined into a string
RECURSIVE Concat(_)
Concat(chars) == IF chars = <<>> THEN "" ELSE Head(chars) \o Concat(Tail(chars))

\* String.prototype.trim on a sequence of characters
RECURSIVE trim(_)
trim(chars) ==
    IF chars = <<>> THEN <<>>
    ELSE IF Head(chars) \in Whitespace THEN trim(Tail(chars))
    ELSE IF chars[Len(chars)] \in Whitespace
         THEN trim(SubSeq(chars, 1, Len(chars) - 1))
    ELSE chars

\* sequences of sequences flattened
RECURSIVE Flatten(_)
Flatten(seqs) == IF seqs = <<>> THEN <<>> ELSE Head(seqs) \o Flatten(Tail(seqs))

\* element.textContent: the text of the element and of all its descendants
RECURSIVE textContent(_)
textContent(el) ==
    el.text \o Flatten([i \in 1..Len(el.kids) |-> textContent(el.kids[i])])

\* the descendants of an element in document order
RECURSIVE Descendants(_)
Descendants(el) ==
    Flatten([i \in 1..Len(el.kids) |-> <<el.kids[i]>> \o Descendants(el.kids[i])])

\* parent.querySelectorAll(tag)
querySelectorAll(parent, tag) ==
    SelectSeq(Descendants(parent), LAMBDA e : e.tag = tag)

\* faulty variant: text taken as it stands in the document
getTextContent_Untrimmed(parent, selector) ==
    IF querySelectorAll(parent, selector) = <<>> THEN Str("")
    ELSE Str(Concat(textContent(querySelectorAll(parent, selector)[1])))

\* getTextContent(parent, selector): querySelector, then textContent.trim(),
\* or '' when there is no such element
getTextContent(parent, selector) ==
    IF querySelectorAll(parent, selector) = <<>> THEN Str("")
    ELSE Str(Concat(trim(textContent(querySelectorAll(parent, selector)[1]))))

\* the child elements each key of a service record is read from
ServiceFields ==
    [name |-> "name", description |-> "description", icon |-> "icon",
     duration |-> "duration", priceRange |-> "price-range",
     featuredImage |-> "featured-image"]

\* faulty variant: only the first service element is kept
parseServices_FirstOnly(servicesNode) ==
    IF servicesNode = JsNull THEN Arr(<<>>)
    ELSE Arr([i \in 1..(IF querySelectorAll(servicesNode, "service") = <<>> THEN 0 ELSE 1) |->
                Obj(("id" :> querySelectorAll(servicesNode, "service")[i].id) @@
                    [k \in DOMAIN ServiceFields |->
                       getTextContent(querySelectorAll(servicesNode, "service")[i],
                                      ServiceFields[k])])])

\* parseServices(servicesNode)
parseServices(servicesNode) ==
    IF servicesNode = JsNull THEN Arr(<<>>)
    ELSE LET serviceNodes == querySelectorAll(servicesNode, "service")
         IN  Arr([i \in 1..Len(serviceNodes) |->
                    Obj(("id" :> serviceNodes[i].id) @@
                        [k \in DOMAIN ServiceFields |->
                           getTextContent(serviceNodes[i], ServiceFields[k])])])

\* root.querySelector(tag): the first such descendant, or null
querySelector(root, tag) ==
    IF querySelectorAll(root, tag) = <<>> THEN JsNull
    ELSE querySelectorAll(root, tag)[1]

\* parseNestedContent(node) and its loop over node.children, from child i on.
\* result[tagName].push on a string is a TypeError.
RECURSIVE parseNestedContent(_)
RECURSIVE parseNestedContent_loop(_, _, _)
parseNestedContent_loop(node, i, result) ==
    IF i > Len(node.kids) THEN result
    ELSE LET child == node.kids[i]
             tagName == child.tag
             similarChildren == SelectSeq(node.kids, LAMBDA c : c.tag = tagName)
             parsed == parseNestedContent(child)
             list == IF ~JsTruthy(Get(result, tagName)) THEN Arr(<<>>)
                     ELSE Get(result, tagName)
         IN  IF Len(child.kids) > 0
             THEN IF IsThrow(parsed) THEN Threw
                  ELSE IF Len(similarChildren) > 1
                  THEN IF ~IsArray(list) THEN Threw
                       ELSE parseNestedContent_loop(node, i + 1,
                              SetKey(result, tagName, Arr(Append(list.a, parsed))))
                  ELSE parseNestedContent_loop(node, i + 1,
                              SetKey(result, tagName, parsed))
             ELSE parseNestedContent_loop(node, i + 1,
                    SetKey(result, tagName, Str(Concat(trim(textContent(child))))))

parseNestedContent(node) == parseNestedContent_loop(node, 1, EmptyObj)

\* parsePageContent(pageNode) and its loop
RECURSIVE parsePageContent_loop(_, _, _)
parsePageContent_loop(pageNode, i, page) ==
    IF i > Len(pageNode.kids) THEN page
    ELSE LET child == pageNode.kids[i]
             parsed == parseNestedContent(child)
         IN  IF Len(child.kids) > 0
             THEN IF IsThrow(parsed) THEN Threw
                  ELSE parsePageContent_loop(pageNode, i + 1,
                                             SetKey(page, child.tag, parsed))
             ELSE parsePageContent_loop(pageNode, i + 1,
                    SetKey(page, child.tag, Str(Concat(trim(textContent(child))))))

parsePageContent(pageNode) ==
    parsePageContent_loop(pageNode, 1, Obj([name |-> pageNode.id]))

\* ---- the documents the parser is run on ----

\* sequences of up to n elements of S
SeqUpTo(S, n) == UNION {[1..k -> S] : k \in 0..n}

\* free-form elements (a page, or a section below one): their children are
\* text leaves and elements with content, under two tag names
FreeFormNodes ==
    LET Leaf(tag, text) == Element(tag, JsNull, text, <<>>)
        Inner == {<<Leaf("title", <<"1">>)>>, <<Leaf("title", <<"2">>)>>,
                  <<Leaf("title", <<"3">>)>>,
                  <<Leaf("title", <<"1">>), Leaf("title", <<"2">>)>>}
        Children ==
            {Leaf(tag, text) : tag \in {"item", "note"},
                               text \in {<<"1">>, <<" ", "2", "\n">>, <<>>}}
            \cup {Element(tag, JsNull, <<>>, kids) :
                     tag \in {"item", "note"}, kids \in Inner}
    IN  {Element("page", Str("index"), <<>>, kids) :
            kids \in SeqUpTo(Children, MaxChildren)}

\* source documents: a company section, then a services section or none; a
\* service element has an id attribute or not, and some of its text children
ServiceDocuments ==
    LET Leaf(tag, text) == Element(tag, JsNull, text, <<>>)
        ServiceNodes ==
            {Element("service", id, <<"\n">>, kids) :
                id \in {JsNull, Str("kitchens"), Str("bathrooms")},
                kids \in {<<>>, <<Leaf("name", <<"K">>)>>,
                          <<Leaf("name", <<" ", "K", " ", "B", "\n">>),
                            Leaf("icon", <<" ">>)>>}}
        company == Element("company", JsNull, <<>>, <<Leaf("name", <<"R">>)>>)
    IN  {Element("site-config", JsNull, <<>>, <<company>>)} \cup
        {Element("site-config", JsNull, <<>>,
                 <<company, Element("services", JsNull, <<"\n">>, kids)>>) :
            kids \in SeqUpTo(ServiceNodes, MaxChildren)}

\* faulty variant: any enabled attribute other than "false" switches on
RECURSIVE parseNode_Truthy(_)
parseNode_Truthy(node) ==
    Obj([T \in {node.kids[i].tag : i \in 1..Len(node.kids)} |->
           LET same == SelectSeq(node.kids, LAMBDA c : c.tag = T)
               child == same[Len(same)]
           IN  IF Len(child.kids) > 0 THEN parseNode_Truthy(child)
               ELSE Obj([k \in {"enabled"} |->
                           Bool(child.enabled \notin {JsNull, Str("false")})])])

\* parseNode of parseFeatureToggles: a later child overwrites an earlier one of
\* the same tag name; an element with children keeps none of its attributes
RECURSIVE parseNode(_)
parseNode(node) ==
    Obj([T \in {node.kids[i].tag : i \in 1..Len(node.kids)} |->
           LET same == SelectSeq(node.kids, LAMBDA c : c.tag = T)
               child == same[Len(same)]
           IN  IF Len(child.kids) > 0 THEN parseNode(child)
               ELSE Obj([k \in {"enabled"} |-> Bool(child.enabled = Str("true"))])])

\* parseFeatureToggles(togglesNode)
parseFeatureToggles(togglesNode) ==
    IF togglesNode = JsNull THEN EmptyObj ELSE parseNode(togglesNode)

\* source documents with a feature-toggles section: toggle elements carry an
\* enabled attribute (null when they have none) in place of text
ToggleDocuments ==
    LET Toggle(tag, enabled, kids) == [tag |-> tag, enabled |-> enabled, kids |-> kids]
        Values == {JsNull, Str("true"), Str("false"), Str("TRUE")}
        Children ==
            {Toggle(tag, e, <<>>) : tag \in {"chatbot", "gallery-page"}, e \in Values}
            \cup {Toggle("gallery-page", JsNull, <<Toggle("instagram-feed", e, <<>>)>>) :
                     e \in Values \ {JsNull}}
    IN  {Element("site-config", JsNull, <<>>,
                 <<Toggle("feature-toggles", JsNull, kids)>>) :
            kids \in SeqUpTo(Children, MaxChildren)}

Parsed(fn, result) ==
    /\ psFn = "none"
    /\ psFn' = fn
    /\ psResult' = result
    /\ UNCHANGED psNode
    /\ OthersUnchanged("parse")

\* parseNestedContent on a free-form element
ParseNestedContent ==
    /\ psNode.tag = "page"
    /\ Parsed("parseNestedContent", parseNestedContent(psNode))

\* parsePageContent on a page element
ParsePageContent ==
    /\ psNode.tag = "page"
    /\ Parsed("parsePageContent", parsePageContent(psNode))

\* config.services = this.parseServices(root.querySelector('services'))
ParseServices ==
    /\ psNode.tag = "site-config"
    /\ Parsed("parseServices",
              Obj([services |-> parseServices(querySelector(psNode, "services"))]))

\* config['feature-toggles'] = this.parseFeatureToggles(root.querySelector(...))
ParseFeatureToggles ==
    /\ psNode.tag = "site-config"
    /\ Parsed("parseFeatureToggles",
              Obj(("feature-toggles" :>
                     parseFeatureToggles(querySelector(psNode, "feature-toggles")))))

-----------------------------------------------------------------------------
(* The build step: build.bat running the configuration compiler             *)

\* faulty variant: the compiler stamps the artifact with the time of the run
build_config_py_Stamped(source, artifact, now) ==
    IF source.wellFormed
    THEN [errorlevel |-> 0,
          artifact |-> [loaded |-> TRUE, config |-> source.text, stamp |-> now]]
    ELSE [errorlevel |-> 1, artifact |-> artifact]

\* python build-config.py: parses the source document and writes the artifact in
\* one piece; a parse error ends it with a non-zero code before anything is written
build_config_py(source, artifact, now) ==
    IF source.wellFormed
    THEN [errorlevel |-> 0,
          artifact |-> [loaded |-> TRUE, config |-> source.text, stamp |-> 0]]
    ELSE [errorlevel |-> 1, artifact |-> artifact]

\* faulty variant: the script ends with the code of its last command, pause
build_bat_IgnoreErrorlevel(python, source, artifact, now) ==
    IF ~python THEN [errorlevel |-> 0, artifact |-> artifact]
    ELSE [errorlevel |-> 0, artifact |-> build_config_py(source, artifact, now).artifact]

\* build.bat: exit /b 1 without Python or when the compiler's errorlevel is 1 or more
build_bat(python, source, artifact, now) ==
    IF ~python THEN [errorlevel |-> 1, artifact |-> artifact]
    ELSE LET run == build_config_py(source, artifact, now)
         IN  IF run.errorlevel >= 1
             THEN [errorlevel |-> 1, artifact |-> run.artifact]
             ELSE [errorlevel |-> 0, artifact |-> run.artifact]

\* the source document as the author may leave it: its text, and whether it parses
Sources == [text : {"a", "b"}, wellFormed : BOOLEAN]

\* the author saves another version of the source document
EditSource ==
    /\ Len(bdLog) < MaxRuns
    /\ \E s \in Sources \ {bdSource} : bdSource' = s
    /\ UNCHANGED <<bdArtifact, bdPython, bdLog>>
    /\ OthersUnchanged("build")

\* one run of build.bat; the run is kept in the log with the artifact it found
\* and the artifact it left
BuildBat ==
    /\ Len(bdLog) < MaxRuns
    /\ LET run == build_bat(bdPython, bdSource, bdArtifact, Len(bdLog) + 1)
       IN  /\ bdArtifact' = run.artifact
           /\ bdLog' = Append(bdLog, [source |-> bdSource, before |-> bdArtifact,
                                      after |-> run.artifact,
                                      errorlevel |-> run.errorlevel])
    /\ UNCHANGED <<bdSource, bdPython>>
    /\ OthersUnchanged("build")

-----------------------------------------------------------------------------
(* Page start-up: what the DOMContentLoaded handlers of the parser, of        *)
(* SiteManager, of FeatureManager and of the chatbot start, and the timers    *)
(* and fetches that finish it.  Time is in milliseconds since                 *)
(* DOMContentLoaded; a timer runs when nothing due earlier is pending.        *)

\* setTimeout(() => { window.chatbotManager = new ChatbotManager(); }, 1000)
ChatbotDelay == 1000
\* setTimeout(() => { window.featureManager.init()... }, 1500)
FeatureManagerDelay == 1500
\* waitForXMLParser: maxAttempts = 20, 250 ms apart
XMLParserAttempts == 20
XMLParserPoll == 250
\* waitForFeatureManager: maxAttempts = 20, 100 ms apart
FeatureManagerAttempts == 20
FeatureManagerPoll == 100
\* setTimeout(() => { window.bookingIntegration = new BookingIntegration(); }, 2000)
BookingDelay == 2000
\* waitForSystems: maxAttempts = 20, 250 ms apart
SystemsAttempts == 20
SystemsPoll == 250

\* the toggles of the source document: chatbot on or off, and a group
DocumentToggles(chatbot) ==
    Obj([k \in {"chatbot", "navigation"} |->
           IF k = "chatbot" THEN Obj([e \in {"enabled"} |-> Bool(chatbot)])
           ELSE Obj([m \in {"mobile-menu"} |-> Obj([e \in {"enabled"} |-> Bool(TRUE)])])])

\* faulty variant: a failed fetch or parse rejects the promise of loadConfig
loadConfig_settle_Rejects(outcome, chatbot) ==
    IF outcome \in {"compiled", "parsed"}
    THEN [t |-> "config", kind |-> outcome, toggles |-> DocumentToggles(chatbot)]
    ELSE Threw

\* what the promise of loadConfig() settles with: the artifact's tree, the parsed
\* tree, or after a failed fetch or parse the tree of getFallbackConfig (whose
\* toggles are all on)
loadConfig_settle(outcome, chatbot) ==
    IF outcome \in {"compiled", "parsed"}
    THEN [t |-> "config", kind |-> outcome, toggles |-> DocumentToggles(chatbot)]
    ELSE [t |-> "config", kind |-> "fallback", toggles |-> DocumentToggles(TRUE)]

\* window.xmlParser.config['feature-toggles'] and the parser's compiled flag
TogglesOf(cfg) == IF cfg = JsNull THEN Undef ELSE cfg.toggles
CompiledOf(cfg) == cfg # JsNull /\ cfg.kind = "compiled"

\* faulty variant: the panel is added whatever the URL says
addDevPanel_Always(params) == TRUE

\* addDevPanel: TRUE when the panel is created.  params are the parameters of
\* the URL, window.location.search is "?" and the parameters joined by "&"
addDevPanel(params) ==
    LET search == IF params = <<>> THEN <<>>
                  ELSE <<"?">> \o Flatten([i \in 1..Len(params) |->
                           IF i = 1 THEN params[i] ELSE <<"&">> \o params[i]])
        sub == <<"d", "e", "v", "=", "t", "r", "u", "e">>
        includes == \E i \in 0..(Len(search) - Len(sub)) :
                        SubSeq(search, i + 1, i + Len(sub)) = sub
    IN  includes

\* one wake-up of FeatureManager.init: a pass of the loop of waitForXMLParser,
\* the end of init, and the then-callback (applyPageToggles, addDevPanel)
FeatureManager_init(fm, cfg, params, now) ==
    LET then(f) ==
            [f EXCEPT !.display = applyPageToggles(f.initialized /\ f.xmlParser,
                                      CompiledOf(cfg), TogglesOf(cfg), "home", @),
                      !.panel = addDevPanel(params)]
    IN  IF fm.attempts < XMLParserAttempts
        THEN IF cfg # JsNull
             THEN then([fm EXCEPT !.phase = "ready", !.xmlParser = TRUE,
                                  !.initialized = TRUE])
             ELSE [fm EXCEPT !.phase = "waiting", !.attempts = @ + 1,
                             !.due = now + XMLParserPoll]
        ELSE then([fm EXCEPT !.phase = "failed", !.initialized = FALSE])

\* SiteManager.init from the end of `await loadConfig()` on: a pass of the loop
\* of waitForFeatureManager and, once it ends, the rest of the try block; own is
\* what loadConfig settled with, cfg the parser's configuration at this moment
SiteManager_init(sm, own, fm, cfg, now) ==
    LET rest ==
            [sm EXCEPT !.phase = "done", !.overlay = FALSE, !.data = own.kind,
                       !.navigation =
                           \/ fm.phase = "absent"
                           \/ isEnabled(fm.initialized /\ fm.xmlParser, CompiledOf(cfg),
                                        TogglesOf(cfg), <<"navigation">>)]
    IN  IF IsThrow(own) THEN [sm EXCEPT !.phase = "error"]
        ELSE IF sm.attempts < FeatureManagerAttempts
        THEN IF fm.phase # "absent" /\ fm.initialized
             THEN rest
             ELSE [sm EXCEPT !.phase = "waiting", !.attempts = @ + 1,
                             !.due = now + FeatureManagerPoll, !.data = own.kind]
        ELSE rest

\* ChatbotManager.init: "skipped" on the early return, else the UI is created
ChatbotManager_init(fm, cfg) ==
    IF /\ fm.phase # "absent"
       /\ ~isEnabled(fm.initialized /\ fm.xmlParser, CompiledOf(cfg), TogglesOf(cfg),
                     <<"chatbot">>)
    THEN "skipped"
    ELSE "created"

\* FeatureManager and SiteManager as their constructors leave them
NewFeatureManager ==
    [phase |-> "timer", attempts |-> 0, due |-> FeatureManagerDelay,
     initialized |-> FALSE, xmlParser |-> FALSE, panel |-> FALSE,
     display |-> [sel \in {"#chatbot-container"} |-> <<"">>]]

NewSiteManager ==
    [phase |-> "loading", attempts |-> 0, due |-> 0, overlay |-> TRUE,
     navigation |-> FALSE, data |-> "none"]

\* faulty variant: the loop of waitForSystems tests attempts <= maxAttempts
BookingIntegration_init_OneMore(bk, systems, now) ==
    IF bk.attempts <= SystemsAttempts
    THEN IF {"calendar", "forms", "chatbot"} \subseteq bk.systems \cup systems
         THEN [bk EXCEPT !.phase = "done", !.systems = @ \cup systems]
         ELSE [bk EXCEPT !.phase = "waiting", !.systems = @ \cup systems,
                         !.attempts = @ + 1, !.due = now + SystemsPoll]
    ELSE [bk EXCEPT !.phase = "done"]

\* one wake-up of BookingIntegration.init: a pass of the loop of waitForSystems
\* and, once it ends (all systems found, or the attempts used up), the rest of
\* init; systems are the managers window holds at this moment
BookingIntegration_init(bk, systems, now) ==
    IF bk.attempts < SystemsAttempts
    THEN IF {"calendar", "forms", "chatbot"} \subseteq bk.systems \cup systems
         THEN [bk EXCEPT !.phase = "done", !.systems = @ \cup systems]
         ELSE [bk EXCEPT !.phase = "waiting", !.systems = @ \cup systems,
                         !.attempts = @ + 1, !.due = now + SystemsPoll]
    ELSE [bk EXCEPT !.phase = "done"]

\* the timers that are pending, by the time they are due
PendingTimers ==
    (IF pgChatbot = "timer" THEN {ChatbotDelay} ELSE {})
    \cup (IF pgBooking.phase \in {"timer", "waiting"} THEN {pgBooking.due} ELSE {})
    \cup (IF pgFM.phase \in {"timer", "waiting"} THEN {pgFM.due} ELSE {})
    \cup (IF pgSM.phase = "waiting" THEN {pgSM.due} ELSE {})

Earliest(due) == \A d \in PendingTimers : due <= d

\* an isEnabled call as the history keeps it
Called(by, path) ==
    [by |-> by, path |-> path, ready |-> pgFM.initialized /\ pgFM.xmlParser,
     waitFailed |-> pgFM.phase = "failed", config |-> pgConfig,
     result |-> isEnabled(pgFM.initialized /\ pgFM.xmlParser, CompiledOf(pgConfig),
                          TogglesOf(pgConfig), path)]

\* a loadConfig() promise that went to the network settles: that of the parser's
\* auto-init ("auto") or that of SiteManager.init ("site"), each with its own
\* fetch; it settles some time after the timer that ran last
LoadSettles ==
    \E l \in {"auto", "site"} :
    \E outcome \in {"parsed", "fetch-failed", "parse-failed"} :
      LET own == loadConfig_settle(outcome, pgEnv.chatbot)
          cfg == IF IsThrow(own) THEN pgConfig ELSE own
          sm  == SiteManager_init(pgSM, own, pgFM, cfg, pgNow)
      IN  /\ pgLoads[l] = "pending"
          /\ pgLoads' = [pgLoads EXCEPT ![l] = "settled"]
          /\ pgConfig' = cfg
          /\ pgErrors' = pgErrors \cup
                (IF outcome \in {"fetch-failed", "parse-failed"}
                 THEN {[error |-> outcome,
                        handler |-> IF ~IsThrow(own) THEN "loadFromXML"
                                    ELSE IF l = "auto" THEN "auto-init"
                                    ELSE "SiteManager.init"]}
                 ELSE {})
          /\ pgSM' = IF l = "site" THEN sm ELSE pgSM
          /\ pgCalls' = pgCalls \cup
                (IF l = "site" /\ sm.phase = "done" /\ pgFM.phase # "absent"
                 THEN {[Called("site", <<"navigation">>) EXCEPT !.config = cfg]}
                 ELSE {})
          /\ UNCHANGED <<pgNow, pgEnv, pgFM, pgChatbot, pgBooking>>
          /\ OthersUnchanged("page")

\* the chatbot's start-up timer runs: new ChatbotManager(), whose constructor
\* calls init
ChatbotTimer ==
    /\ pgChatbot = "timer"
    /\ Earliest(ChatbotDelay)
    /\ pgNow' = ChatbotDelay
    /\ pgChatbot' = ChatbotManager_init(pgFM, pgConfig)
    /\ pgCalls' = pgCalls \cup
          (IF pgFM.phase # "absent" THEN {Called("chatbot", <<"chatbot">>)} ELSE {})
    /\ UNCHANGED <<pgEnv, pgLoads, pgConfig, pgFM, pgSM, pgBooking, pgErrors>>
    /\ OthersUnchanged("page")

\* the feature manager's start-up timer, or a timer of its wait loop, runs
FeatureManagerWakes ==
    /\ pgFM.phase \in {"timer", "waiting"}
    /\ Earliest(pgFM.due)
    /\ pgNow' = pgFM.due
    /\ pgFM' = FeatureManager_init(pgFM, pgConfig, pgEnv.params, pgFM.due)
    /\ pgErrors' = pgErrors \cup
          (IF pgFM'.phase = "failed"
           THEN {[error |-> "XML parser not available",
                  handler |-> "FeatureManager.init"]}
           ELSE {})
    /\ UNCHANGED <<pgEnv, pgLoads, pgConfig, pgSM, pgChatbot, pgBooking, pgCalls>>
    /\ OthersUnchanged("page")

\* the start-up timer of the booking integration, or a timer of its wait loop,
\* runs.  window.formManager exists from DOMContentLoaded on, window.chatbotManager
\* once the chatbot's timer has run, window.calendarManager (a timer of 1000 ms)
\* only on a page with #calendar-container
BookingWakes ==
    /\ pgBooking.phase \in {"timer", "waiting"}
    /\ Earliest(pgBooking.due)
    /\ pgNow' = pgBooking.due
    /\ pgBooking' = BookingIntegration_init(pgBooking,
                        {"forms"} \cup (IF pgChatbot # "timer" THEN {"chatbot"} ELSE {})
                        \cup (IF pgEnv.calendarContainer THEN {"calendar"} ELSE {}),
                        pgBooking.due)
    /\ UNCHANGED <<pgEnv, pgLoads, pgConfig, pgFM, pgSM, pgChatbot, pgCalls, pgErrors>>
    /\ OthersUnchanged("page")

\* a timer of SiteManager's wait loop runs
SiteManagerWakes ==
    /\ pgSM.phase = "waiting"
    /\ Earliest(pgSM.due)
    /\ pgNow' = pgSM.due
    /\ pgSM' = SiteManager_init(pgSM, [t |-> "config", kind |-> pgSM.data], pgFM, pgConfig,
                             pgSM.due)
    /\ pgCalls' = pgCalls \cup
          (IF pgSM'.phase = "done" /\ pgFM.phase # "absent"
           THEN {Called("site", <<"navigation">>)} ELSE {})
    /\ UNCHANGED <<pgEnv, pgLoads, pgConfig, pgFM, pgChatbot, pgBooking, pgErrors>>
    /\ OthersUnchanged("page")

-----------------------------------------------------------------------------
(* SiteManager.populateAccreditations.  A date is the time value of the Date  *)
(* object: a number, or NaN for new Date() of a missing or malformed string.  *)

\* faulty variant: a grid that is already filled keeps its flags
populateAccreditations_Cached(accreditations, container, now) ==
    IF container # <<>> THEN container
    ELSE [i \in 1..Len(accreditations) |->
            IF ~accreditations[i].nan /\ accreditations[i].n > now
            THEN "valid" ELSE "expired"]

\* the validity class of each item the function appends to the emptied grid:
\* isValid = new Date(accreditation.validUntil) > new Date()
populateAccreditations(accreditations, container, now) ==
    [i \in 1..Len(accreditations) |->
        IF ~accreditations[i].nan /\ accreditations[i].n > now
        THEN "valid" ELSE "expired"]

\* the clock moves on
TimePasses ==
    /\ rnNow < MaxClock
    /\ rnNow' = rnNow + 1
    /\ UNCHANGED <<rnAccreditations, rnContainer, rnPrevious, rnRenderedAt>>
    /\ OthersUnchanged("render")

\* populateAccreditations() runs on config.accreditations
PopulateAccreditations ==
    /\ rnContainer' = populateAccreditations(rnAccreditations, rnContainer, rnNow)
    /\ rnPrevious' = rnContainer
    /\ rnRenderedAt' = rnNow
    /\ UNCHANGED <<rnAccreditations, rnNow>>
    /\ OthersUnchanged("render")

-----------------------------------------------------------------------------
(* The sliders: HeroSlider, TestimonialsSlider and the slider of static slides *)

\* HeroSlider before init(config)
NewHeroSlider ==
    [phase |-> "new", slideCount |-> 0, currentSlide |-> 0, autoPlay |-> TRUE,
     dots |-> 0, container |-> FALSE, autoPlayTimer |-> FALSE, intervals |-> 0,
     isAutoPlaying |-> FALSE, isPaused |-> FALSE, hover |-> FALSE]

\* HeroSlider.stopAutoPlay: clearInterval of the timer the handle names
HeroSlider_stopAutoPlay(h) ==
    [h EXCEPT !.intervals = IF h.autoPlayTimer THEN @ - 1 ELSE @,
              !.autoPlayTimer = FALSE,
              !.isAutoPlaying = FALSE]

\* HeroSlider.startAutoPlay
HeroSlider_startAutoPlay(h) ==
    IF h.slideCount <= 1 THEN h
    ELSE [HeroSlider_stopAutoPlay(h) EXCEPT !.intervals = @ + 1,
                                            !.autoPlayTimer = TRUE,
                                            !.isAutoPlaying = TRUE]

\* faulty variant: the requested index is taken as it is
HeroSlider_goToSlide_NoWrap(h, index) == [h EXCEPT !.currentSlide = index]

\* HeroSlider.goToSlide: the index is normalised and stored; the slides are then
\* looked up in slidesContainer, which is null after destroy() (a TypeError,
\* raised after currentSlide was written)
HeroSlider_goToSlide(h, index) ==
    [h EXCEPT !.currentSlide = IF index < 0 THEN h.slideCount - 1
                               ELSE IF index >= h.slideCount THEN 0
                               ELSE index]

\* nextSlide, prevSlide and the dot click: goToSlide (after destroy() it throws
\* and the rest is skipped), then the auto-play timer is reset when it is running
HeroSlider_navigate(h, index) ==
    LET g == HeroSlider_goToSlide(h, index)
    IN  IF g.container /\ g.autoPlay /\ g.isAutoPlaying
        THEN HeroSlider_startAutoPlay(HeroSlider_stopAutoPlay(g))
        ELSE g

\* TestimonialsSlider before its constructor ran
NewTestimonialsSlider ==
    [phase |-> "new", length |-> 0, currentIndex |-> 0, slides |-> <<>>,
     autoPlayTimer |-> FALSE, intervals |-> 0, isTransitioning |-> FALSE,
     hover |-> FALSE]

\* TestimonialsSlider.stopAutoPlay
TestimonialsSlider_stopAutoPlay(t) ==
    [t EXCEPT !.intervals = IF t.autoPlayTimer THEN @ - 1 ELSE @,
              !.autoPlayTimer = FALSE]

\* faulty variant: a start that does not clear the timer that is running
TestimonialsSlider_startAutoPlay_NoClear(t) ==
    IF t.length <= 1 THEN t
    ELSE [t EXCEPT !.intervals = @ + 1, !.autoPlayTimer = TRUE]

\* TestimonialsSlider.startAutoPlay
TestimonialsSlider_startAutoPlay(t) ==
    IF t.length <= 1 THEN t
    ELSE [TestimonialsSlider_stopAutoPlay(t) EXCEPT !.intervals = @ + 1,
                                                    !.autoPlayTimer = TRUE]

\* TestimonialsSlider.goToSlide: nothing happens during a transition, for the
\* current index and for an index out of range
TestimonialsSlider_goToSlide(t, index) ==
    IF t.isTransitioning \/ index = t.currentIndex THEN t
    ELSE IF index < 0 \/ index >= t.length THEN t
    ELSE [t EXCEPT
            !.isTransitioning = TRUE,
            !.slides = [i \in DOMAIN t.slides |->
                          IF i = index + 1
                          THEN [active |-> TRUE, ariaHidden |-> FALSE]
                          ELSE IF i = t.currentIndex + 1
                          THEN [active |-> FALSE, ariaHidden |-> TRUE]
                          ELSE t.slides[i]],
            !.currentIndex = index]

\* nextSlide (step = 1) and previousSlide (step = -1)
TestimonialsSlider_step(t, step) ==
    TestimonialsSlider_goToSlide(t, (t.currentIndex + step + t.length) % t.length)

\* stopAutoPlay of the slider of static slides
stopAutoPlay(s) ==
    [s EXCEPT !.intervals = IF s.autoPlayInterval THEN @ - 1 ELSE @,
              !.autoPlayInterval = FALSE]

\* startAutoPlay of the slider of static slides
startAutoPlay(s) ==
    [stopAutoPlay(s) EXCEPT !.intervals = @ + 1, !.autoPlayInterval = TRUE]

\* HeroSlider.init(config) with config.slides.length = n
HeroInit ==
    /\ heroSlider.phase = "new"
    /\ \E n \in 0..MaxSlides, autoPlay \in BOOLEAN :
          /\ heroSlider' =
               IF n = 0 THEN heroSlider
               ELSE LET h == [heroSlider EXCEPT !.phase = "ready", !.slideCount = n,
                                                 !.autoPlay = autoPlay, !.dots = n,
                                                 !.container = TRUE]
                        s == IF autoPlay /\ n > 1 THEN HeroSlider_startAutoPlay(h) ELSE h
                    IN  HeroSlider_goToSlide(s, 0)
    /\ slLast' = "init"
    /\ UNCHANGED <<testimonialsSlider, simpleSlider, docHidden>>
    /\ OthersUnchanged("slider")

\* the arrows, the arrow keys and a swipe (nextSlide, prevSlide), the dots, and
\* the Home and End keys (goToSlide alone); the listeners stay bound after destroy()
HeroNavigate ==
    /\ heroSlider.phase # "new"
    /\ \/ /\ heroSlider' = HeroSlider_navigate(heroSlider, heroSlider.currentSlide + 1)
          /\ slLast' = "next"
       \/ /\ heroSlider' = HeroSlider_navigate(heroSlider, heroSlider.currentSlide - 1)
          /\ slLast' = "prev"
       \/ /\ \E dot \in 0..(heroSlider.dots - 1) :
                heroSlider' = HeroSlider_navigate(heroSlider, dot)
          /\ slLast' = "goto"
       \/ /\ \E index \in {0, heroSlider.slideCount - 1} :
                heroSlider' = HeroSlider_goToSlide(heroSlider, index)
          /\ slLast' = "goto"
    /\ UNCHANGED <<testimonialsSlider, simpleSlider, docHidden>>
    /\ OthersUnchanged("slider")

\* the interval timer of the hero slider fires
HeroTick ==
    /\ heroSlider.intervals > 0
    /\ heroSlider' = IF heroSlider.isPaused THEN heroSlider
                     ELSE HeroSlider_navigate(heroSlider, heroSlider.currentSlide + 1)
    /\ slLast' = "tick-hero"
    /\ UNCHANGED <<testimonialsSlider, simpleSlider, docHidden>>
    /\ OthersUnchanged("slider")

\* mouseenter (pauseAutoPlay) and mouseleave (resumeAutoPlay) on the hero slider
HeroMouse ==
    /\ heroSlider.phase # "new"
    /\ heroSlider' = [heroSlider EXCEPT !.hover = ~@, !.isPaused = ~heroSlider.hover]
    /\ slLast' = "mouse"
    /\ UNCHANGED <<testimonialsSlider, simpleSlider, docHidden>>
    /\ OthersUnchanged("slider")

\* HeroSlider.destroy
HeroDestroy ==
    /\ heroSlider.phase = "ready"
    /\ heroSlider' = [HeroSlider_stopAutoPlay(heroSlider) EXCEPT
                         !.phase = "destroyed", !.container = FALSE,
                         !.currentSlide = 0, !.slideCount = 0]
    /\ slLast' = "destroy"
    /\ UNCHANGED <<testimonialsSlider, simpleSlider, docHidden>>
    /\ OthersUnchanged("slider")

\* new TestimonialsSlider(element, testimonials): createSlides, goToSlide(0),
\* startAutoPlay
TestimonialsInit ==
    /\ testimonialsSlider.phase = "new"
    /\ \E n \in 1..MaxSlides :
          LET t == [testimonialsSlider EXCEPT
                      !.phase = "ready", !.length = n,
                      !.slides = [i \in 1..n |->
                                    [active |-> FALSE, ariaHidden |-> i # 1]]]
          IN  testimonialsSlider' =
                 TestimonialsSlider_startAutoPlay(TestimonialsSlider_goToSlide(t, 0))
    /\ slLast' = "init"
    /\ UNCHANGED <<heroSlider, simpleSlider, docHidden>>
    /\ OthersUnchanged("slider")

\* a dot, an arrow key or a swipe: the slide changes and auto-play is restarted
TestimonialsNavigate ==
    /\ testimonialsSlider.phase = "ready"
    /\ \E t \in {TestimonialsSlider_step(testimonialsSlider, 1),
                 TestimonialsSlider_step(testimonialsSlider, -1)}
              \cup {TestimonialsSlider_goToSlide(testimonialsSlider, dot) :
                       dot \in IF testimonialsSlider.length <= 1 THEN {}
                               ELSE 0..(testimonialsSlider.length - 1)} :
          testimonialsSlider' =
             TestimonialsSlider_startAutoPlay(TestimonialsSlider_stopAutoPlay(t))
    /\ slLast' = "goto"
    /\ UNCHANGED <<heroSlider, simpleSlider, docHidden>>
    /\ OthersUnchanged("slider")

\* the interval timer of the testimonials slider fires
TestimonialsTick ==
    /\ testimonialsSlider.intervals > 0
    /\ testimonialsSlider' = TestimonialsSlider_step(testimonialsSlider, 1)
    /\ slLast' = "tick-testimonials"
    /\ UNCHANGED <<heroSlider, simpleSlider, docHidden>>
    /\ OthersUnchanged("slider")

\* the timeout of goToSlide ends the transition
TransitionEnds ==
    /\ testimonialsSlider.isTransitioning
    /\ testimonialsSlider' = [testimonialsSlider EXCEPT !.isTransitioning = FALSE]
    /\ slLast' = "timeout"
    /\ UNCHANGED <<heroSlider, simpleSlider, docHidden>>
    /\ OthersUnchanged("slider")

\* mouseenter (stopAutoPlay) and mouseleave (startAutoPlay) on the testimonials
TestimonialsMouse ==
    /\ testimonialsSlider.phase = "ready"
    /\ testimonialsSlider' =
          LET t == [testimonialsSlider EXCEPT !.hover = ~@]
          IN  IF t.hover THEN TestimonialsSlider_stopAutoPlay(t)
              ELSE TestimonialsSlider_startAutoPlay(t)
    /\ slLast' = "mouse"
    /\ UNCHANGED <<heroSlider, simpleSlider, docHidden>>
    /\ OthersUnchanged("slider")

\* the slider of static slides: mouseenter stops auto-play; a dot, a key, a swipe
\* and mouseleave start it
SimpleSliderEvent ==
    /\ \E start \in BOOLEAN :
          simpleSlider' = IF start THEN startAutoPlay(simpleSlider)
                          ELSE stopAutoPlay(simpleSlider)
    /\ slLast' = "simple"
    /\ UNCHANGED <<heroSlider, testimonialsSlider, docHidden>>
    /\ OthersUnchanged("slider")

\* visibilitychange: every slider that has bound its listener hears it
VisibilityChange ==
    /\ docHidden' = ~docHidden
    /\ heroSlider' = IF heroSlider.phase = "new" THEN heroSlider
                     ELSE [heroSlider EXCEPT !.isPaused = ~docHidden]
    /\ testimonialsSlider' =
          IF testimonialsSlider.phase = "new" THEN testimonialsSlider
          ELSE IF ~docHidden THEN TestimonialsSlider_stopAutoPlay(testimonialsSlider)
          ELSE TestimonialsSlider_startAutoPlay(testimonialsSlider)
    /\ simpleSlider' = IF ~docHidden THEN stopAutoPlay(simpleSlider)
                       ELSE startAutoPlay(simpleSlider)
    /\ slLast' = "visibility"
    /\ OthersUnchanged("slider")

-----------------------------------------------------------------------------
(* The form system: FormManager *)

\* the fields of the forms
FormFields == {"name", "email", "phone", "message", "address", "preferred-date",
               "preferred-time"}

\* this.forms after setupForms on a page with the contact and the booking form
forms ==
    [contact |-> [type |-> "contact",
                  requiredFields |-> <<"name", "email", "message">>],
     booking |-> [type |-> "booking",
                  requiredFields |-> <<"name", "email", "phone", "address",
                                       "preferred-date", "preferred-time">>]]

Digits == <<"0", "1", "2", "3", "4", "5", "6", "7", "8", "9">>

\* /^[^\s@]+@[^\s@]+\.[^\s@]+$/.test(email)
isValidEmail(email) ==
    /\ \A i \in DOMAIN email : email[i] \notin Whitespace
    /\ \E at \in 2..Len(email) :
          /\ email[at] = "@"
          /\ \A i \in DOMAIN email : email[i] = "@" => i = at
          /\ \E dot \in (at + 2)..(Len(email) - 1) : email[dot] = "."

\* /^(\+44|0)[1-9][0-9]{8,9}$/.test(phone.replace(/\s/g, ''))
isValidPhone(phone) ==
    LET digits == SelectSeq(phone, LAMBDA c : c \notin Whitespace)
        IsDigit(c) == \E i \in DOMAIN Digits : Digits[i] = c
        Rest(from) == SubSeq(digits, from, Len(digits))
        Local(r) == /\ Len(r) \in {9, 10}
                    /\ r[1] # "0"
                    /\ \A i \in DOMAIN r : IsDigit(r[i])
    IN  \/ Len(digits) > 3 /\ SubSeq(digits, 1, 3) = <<"+", "4", "4">> /\ Local(Rest(4))
        \/ Len(digits) > 1 /\ digits[1] = "0" /\ Local(Rest(2))

\* new Date(text) as a day number: the texts "1".."9" stand for the dates of
\* consecutive days, any other text is an Invalid Date
DateOf(text) ==
    IF Len(text) = 1 /\ \E i \in 2..10 : Digits[i] = text[1]
    THEN Num((CHOOSE i \in 2..10 : Digits[i] = text[1]) - 1)
    ELSE NaN

\* faulty variant: only the required fields are looked at
validateForm_RequiredOnly(formConfig, data, today) ==
    LET errors == SelectSeq(formConfig.requiredFields,
                            LAMBDA field : data[field] = <<>> \/ trim(data[field]) = <<>>)
    IN  [valid |-> errors = <<>>, errors |-> errors]

\* FormManager.validateForm: the fields with an error, in the order they are found
validateForm(formConfig, data, today) ==
    LET required == SelectSeq(formConfig.requiredFields,
                              LAMBDA field : data[field] = <<>> \/ trim(data[field]) = <<>>)
        email == IF data["email"] # <<>> /\ ~isValidEmail(data["email"])
                 THEN <<"email">> ELSE <<>>
        phone == IF data["phone"] # <<>> /\ ~isValidPhone(data["phone"])
                 THEN <<"phone">> ELSE <<>>
        selectedDate == DateOf(data["preferred-date"])
        date == IF /\ data["preferred-date"] # <<>>
                   /\ ~selectedDate.nan
                   /\ selectedDate.n < today
                THEN <<"preferred-date">> ELSE <<>>
        errors == required \o email \o phone \o date
    IN  [valid |-> errors = <<>>, errors |-> errors]

\* what a visitor may have typed into a form (a field left out of the FormData
\* reads as undefined, which every test here treats like the empty string)
FormInputs ==
    LET Text == {<<>>, <<"h", "i">>}
        Names == {<<>>, <<" ">>, <<"A", "l">>}
        Emails == {<<>>, <<"a", "@", "b", ".", "c">>, <<"a", "@", "b">>,
                   <<"a", "@", "b", " ", ".", "c">>}
        Phones == {<<>>,
                   <<"0", "7", "1", "2", " ", "3", "4", "5", " ", "6", "7", "8">>,
                   <<"0", "7", "1", "2", "3", "4", "5", "6", "7">>,
                   <<"+", "4", "4", "0", "1", "2", "3", "4", "5", "6", "7", "8">>}
        Dates == {<<>>, <<"x">>} \cup {<<Digits[d + 1]>> : d \in 1..MaxDay}
    IN  {[f \in FormFields |->
            CASE f = "name" -> n
              [] f = "email" -> e
              [] f = "phone" -> p
              [] f = "preferred-date" -> d
              [] f = "message" -> m
              [] OTHER -> a] :
         n \in Names, e \in Emails, p \in Phones, d \in Dates, m \in Text, a \in Text}

\* a submit event: handleFormSubmission up to its await. An unknown form id
\* returns at once, invalid data returns after showValidationErrors, valid data
\* enters processSubmission
SubmitForm ==
    /\ foSubmits < MaxSubmits
    /\ foSubmits' = foSubmits + 1
    /\ \E formId \in {"contact", "booking", "quick-quote"}, data \in FormInputs :
          IF formId \notin DOMAIN forms
          THEN UNCHANGED <<foPending, foValidated, foRejected>>
          ELSE LET validation == validateForm(forms[formId], data, foToday)
               IN  IF ~validation.valid
                   THEN /\ foRejected' = foRejected + 1
                        /\ UNCHANGED <<foPending, foValidated>>
                   ELSE /\ foPending' = foPending \cup
                               {[id |-> foSubmits, type |-> forms[formId].type,
                                 data |-> data]}
                        /\ foValidated' = foValidated \cup
                               {[type |-> forms[formId].type, data |-> data]}
                        /\ UNCHANGED foRejected
    /\ UNCHANGED <<foToday, submissions>>
    /\ OthersUnchanged("form")

\* the delay of processSubmission is over: handleFormSubmission goes on and
\* stores the submission
ProcessingDone ==
    /\ \E p \in foPending :
          /\ foPending' = foPending \ {p}
          /\ submissions' = Append(submissions,
                                   [type |-> p.type, data |-> p.data,
                                    status |-> "submitted"])
    /\ UNCHANGED <<foToday, foSubmits, foValidated, foRejected>>
    /\ OthersUnchanged("form")

-----------------------------------------------------------------------------
(* The booking calendar: CalendarManager *)

\* the days the calendar offers (named by their date key) and the times of a day
CalendarDates == {"d1", "d2"}

SlotTimes == {"10:00", "11:00"}

\* availableSlots after generateAppointmentSlots: every slot free
NewSlots ==
    [date \in CalendarDates |->
        [time \in SlotTimes |-> [available |-> TRUE, booked |-> FALSE]]]

\* CalendarManager.isSlotAvailable (as a truth value)
isSlotAvailable(slots, date, time) ==
    /\ date \in DOMAIN slots
    /\ time \in DOMAIN slots[date]
    /\ slots[date][time].available
    /\ ~slots[date][time].booked

\* CalendarManager.markSlotAsBooked
markSlotAsBooked(slots, date, time) ==
    IF date \in DOMAIN slots /\ time \in DOMAIN slots[date]
    THEN [slots EXCEPT ![date][time] = [available |-> FALSE, booked |-> TRUE]]
    ELSE slots

\* selectDate: a day of the grid is clicked; showTimeSlots renders a button for
\* every free slot of the day
SelectDate ==
    /\ \E date \in CalendarDates :
          /\ caSelected' = [caSelected EXCEPT !.date = date, !.time = "null"]
          /\ caPage' = [caPage EXCEPT
                          !.timeSlots = {time \in SlotTimes :
                                            /\ availableSlots[date][time].available
                                            /\ ~availableSlots[date][time].booked}]
    /\ UNCHANGED <<availableSlots, appointments, caConfirming>>
    /\ OthersUnchanged("calendar")

\* selectTimeSlot: one of the rendered buttons is clicked; the appointment
\* types are shown
SelectTimeSlot ==
    /\ \E time \in caPage.timeSlots :
          caSelected' = [caSelected EXCEPT !.time = time]
    /\ caPage' = [caPage EXCEPT !.types = TRUE]
    /\ UNCHANGED <<availableSlots, appointments, caConfirming>>
    /\ OthersUnchanged("calendar")

\* selectAppointmentType: a card is clicked; showBookingSummary shows the
\* summary with the Edit and Confirm buttons (a TypeError without a date and a
\* time; nothing to fill in once the confirmation has replaced the summary)
SelectAppointmentType ==
    /\ caPage.types
    /\ caSelected' = [caSelected EXCEPT !.type = TRUE]
    /\ caPage' = IF caSelected.date = "null" \/ caSelected.time = "null"
                 THEN caPage
                 ELSE [caPage EXCEPT !.summary = IF @ = "hidden" THEN "shown" ELSE @]
    /\ UNCHANGED <<availableSlots, appointments, caConfirming>>
    /\ OthersUnchanged("calendar")

\* the Edit button: resetBookingFlow
ResetBookingFlow ==
    /\ caPage.summary = "shown"
    /\ caSelected' = [date |-> "null", time |-> "null", type |-> FALSE]
    /\ caPage' = [caPage EXCEPT !.timeSlots = {}, !.types = FALSE, !.summary = "hidden"]
    /\ UNCHANGED <<availableSlots, appointments, caConfirming>>
    /\ OthersUnchanged("calendar")

\* the Confirm button: confirmBooking up to the await in createBooking. The
\* button is disabled and the booking is stored in appointments
ConfirmBooking ==
    /\ caPage.summary = "shown"
    /\ ~caPage.disabled
    /\ Cardinality(appointments) < MaxBookings
    /\ IF caSelected.date = "null" \/ caSelected.time = "null" \/ ~caSelected.type
       THEN UNCHANGED <<caPage, appointments, caConfirming>>
       ELSE LET booking == [id |-> Cardinality(appointments) + 1,
                            date |-> caSelected.date,
                            time |-> caSelected.time,
                            status |-> "confirmed"]
            IN  /\ caPage' = [caPage EXCEPT !.disabled = TRUE]
                /\ appointments' = appointments \cup {booking}
                /\ caConfirming' = booking
    /\ UNCHANGED <<availableSlots, caSelected>>
    /\ OthersUnchanged("calendar")

\* the delay of createBooking is over: confirmBooking goes on with
\* showBookingConfirmation, which reads the date and the time selected now (a
\* TypeError when one is null: the catch alerts), then markSlotAsBooked with the
\* date and the time selected now; finally the button, if still there, is enabled
BookingCreated ==
    /\ caConfirming # JsNull
    /\ caConfirming' = JsNull
    /\ IF caSelected.date = "null" \/ caSelected.time = "null"
       THEN /\ caPage' = [caPage EXCEPT !.disabled = FALSE]
            /\ UNCHANGED availableSlots
       ELSE /\ caPage' = [caPage EXCEPT !.summary = "confirmed", !.disabled = FALSE]
            /\ availableSlots' =
                  markSlotAsBooked(availableSlots, caSelected.date, caSelected.time)
    /\ UNCHANGED <<appointments, caSelected>>
    /\ OthersUnchanged("calendar")

-----------------------------------------------------------------------------
(* Specifications: one per subsystem; the others stay idle *)

ToggleIdle ==
    /\ tgToggles = Undef
    /\ tgCompiled = FALSE
    /\ tgCalled = FALSE
    /\ tgPath = <<>>
    /\ tgResult = TRUE

LoadIdle ==
    /\ config = Null
    /\ loaded = FALSE
    /\ useCompiledConfig = FALSE
    /\ compiledLoaded = FALSE
    /\ rootStyle = 0
    /\ calls = [c \in Callers |-> IdleCall]
    /\ fetchCount = 0
    /\ parseCount = 0
    /\ nextId = CompiledConfigId + 1
    /\ provLog = {}

AccessIdle ==
    /\ acConfig = JsNull
    /\ acCompiled = FALSE
    /\ acOptional = FALSE
    /\ acCall = NoCall
    /\ acResult = Undef

PanelIdle ==
    /\ fmInitialized = FALSE
    /\ fmToggles = Undef
    /\ fmCompiled = FALSE
    /\ fmPage = "home"
    /\ fmDisplay = PageElements("home")
    /\ fmCall = NoToggle

ParseIdle ==
    /\ psNode = JsNull
    /\ psFn = "none"
    /\ psResult = Undef

BuildIdle ==
    /\ bdSource = JsNull
    /\ bdArtifact = JsNull
    /\ bdPython = FALSE
    /\ bdLog = <<>>

PageIdle ==
    /\ pgNow = 0
    /\ pgEnv = JsNull
    /\ pgLoads = <<>>
    /\ pgConfig = JsNull
    /\ pgFM = [NewFeatureManager EXCEPT !.phase = "absent"]
    /\ pgSM = [NewSiteManager EXCEPT !.phase = "idle"]
    /\ pgChatbot = "idle"
    /\ pgBooking = [phase |-> "idle", attempts |-> 0, due |-> 0, systems |-> {}]
    /\ pgCalls = {}
    /\ pgErrors = {}

RenderIdle ==
    /\ rnAccreditations = <<>>
    /\ rnNow = 0
    /\ rnContainer = <<>>
    /\ rnPrevious = <<>>
    /\ rnRenderedAt = -1

SliderIdle ==
    /\ heroSlider = NewHeroSlider
    /\ testimonialsSlider = NewTestimonialsSlider
    /\ simpleSlider = [autoPlayInterval |-> FALSE, intervals |-> 0]
    /\ docHidden = FALSE
    /\ slLast = "none"

FormIdle ==
    /\ foToday = 1
    /\ foSubmits = 0
    /\ foPending = {}
    /\ submissions = <<>>
    /\ foValidated = {}
    /\ foRejected = 0

CalendarIdle ==
    /\ availableSlots = NewSlots
    /\ appointments = {}
    /\ caSelected = [date |-> "null", time |-> "null", type |-> FALSE]
    /\ caPage = [timeSlots |-> {}, types |-> FALSE, summary |-> "hidden",
                 disabled |-> FALSE]
    /\ caConfirming = JsNull

\* the widgets of the page before they are constructed
WidgetsIdle ==
    /\ SliderIdle
    /\ FormIdle
    /\ CalendarIdle

Init ==
    /\ WidgetsIdle
    /\ config = Null
    /\ loaded = FALSE
    /\ useCompiledConfig = FALSE
    /\ compiledLoaded \in BOOLEAN
    /\ rootStyle = 0
    /\ calls = [c \in Callers |-> IdleCall]
    /\ fetchCount = 0
    /\ parseCount = 0
    /\ nextId = CompiledConfigId + 1
    /\ provLog = {}
    /\ ToggleIdle
    /\ AccessIdle
    /\ PanelIdle
    /\ ParseIdle
    /\ BuildIdle
    /\ PageIdle
    /\ RenderIdle

LoadConfigCall ==
    /\ \E c \in Callers : loadConfig(c)
    /\ OthersUnchanged("load")
FetchSettles ==
    /\ \E c \in Callers, o \in FetchOutcomes : loadFromXML_fetched(c, o)
    /\ OthersUnchanged("load")
TextSettles ==
    /\ \E c \in Callers, o \in TextOutcomes : loadFromXML_parsed(c, o)
    /\ OthersUnchanged("load")

Next ==
    \/ LoadConfigCall
    \/ FetchSettles
    \/ TextSettles

Spec == Init /\ [][Next]_vars

InitToggle ==
    /\ WidgetsIdle
    /\ LoadIdle
    /\ AccessIdle
    /\ PanelIdle
    /\ ParseIdle
    /\ BuildIdle
    /\ PageIdle
    /\ RenderIdle
    /\ tgToggles \in ToggleTrees
    /\ tgCompiled \in BOOLEAN
    /\ tgCalled = FALSE
    /\ tgPath = <<>>
    /\ tgResult = TRUE

NextToggle == IsFeatureEnabledCall

SpecToggle == InitToggle /\ [][NextToggle]_vars

InitAccess ==
    /\ WidgetsIdle
    /\ LoadIdle
    /\ ToggleIdle
    /\ PanelIdle
    /\ ParseIdle
    /\ BuildIdle
    /\ PageIdle
    /\ RenderIdle
    /\ acConfig \in AccessConfigs
    /\ acCompiled \in BOOLEAN
    /\ acOptional \in (IF acCompiled THEN BOOLEAN ELSE {FALSE})
    /\ acCall = NoCall
    /\ acResult = Undef

NextAccess ==
    \/ GetValue
    \/ GetSection
    \/ GetList
    \/ GetKeyed
    \/ GetUiString
    \/ IsFeatureEnabledOnConfig

SpecAccess == InitAccess /\ [][NextAccess]_vars

\* the toggle trees the panel works on: parsed leaves {enabled: b}, and direct
\* values as an artifact may keep them
PanelTrees ==
    LET Leaves == {Obj([k \in {"enabled"} |-> Bool(b)]) : b \in BOOLEAN}
                     \cup {Bool(TRUE), Str("false")}
        Groups == Leaves \cup {Obj([k \in {"instagram-feed"} |-> l]) : l \in Leaves}
        Pricing == {Obj([k \in {"pricing-display"} |->
                             Obj([e \in {"enabled"} |-> Bool(b)])]) : b \in BOOLEAN}
    IN  {Undef} \cup
        {Obj(f) : f \in UNION {[D -> Groups] : D \in SUBSET {"chatbot", "gallery-page"}}}
        \cup {Obj(f @@ ("services-page" :> s)) :
                 f \in [{"chatbot"} -> Leaves] \cup {<<>>}, s \in Pricing}

\* the page after DOMContentLoaded: init() has ended, well or not, and
\* applyPageToggles has run once
InitPanel ==
    /\ WidgetsIdle
    /\ LoadIdle
    /\ ToggleIdle
    /\ AccessIdle
    /\ ParseIdle
    /\ BuildIdle
    /\ PageIdle
    /\ RenderIdle
    /\ fmInitialized \in BOOLEAN
    /\ fmToggles \in PanelTrees
    /\ fmCompiled \in BOOLEAN
    /\ fmPage \in {"home", "gallery", "services"}
    /\ fmDisplay = applyPageToggles(fmInitialized, fmCompiled, fmToggles, fmPage,
                                    PageElements(fmPage))
    /\ fmCall = NoToggle

NextPanel == ToggleFeature

SpecPanel == InitPanel /\ [][NextPanel]_vars

InitParse ==
    /\ WidgetsIdle
    /\ LoadIdle
    /\ ToggleIdle
    /\ AccessIdle
    /\ PanelIdle
    /\ psNode \in FreeFormNodes \cup ServiceDocuments \cup ToggleDocuments
    /\ psFn = "none"
    /\ psResult = Undef
    /\ BuildIdle
    /\ PageIdle
    /\ RenderIdle

NextParse ==
    \/ ParseNestedContent
    \/ ParsePageContent
    \/ ParseServices
    \/ ParseFeatureToggles

SpecParse == InitParse /\ [][NextParse]_vars

InitBuild ==
    /\ WidgetsIdle
    /\ LoadIdle
    /\ ToggleIdle
    /\ AccessIdle
    /\ PanelIdle
    /\ ParseIdle
    /\ bdSource \in Sources
    /\ bdArtifact = JsNull
    /\ bdPython \in BOOLEAN
    /\ bdLog = <<>>
    /\ PageIdle
    /\ RenderIdle

NextBuild ==
    \/ EditSource
    \/ BuildBat

SpecBuild == InitBuild /\ [][NextBuild]_vars

\* the page when the DOMContentLoaded handlers have returned: with the artifact
\* both loadConfig() calls have taken the compiled path and SiteManager.init is in
\* its wait loop; without it two fetches are under way
InitPage ==
    /\ WidgetsIdle
    /\ LoadIdle
    /\ ToggleIdle
    /\ AccessIdle
    /\ PanelIdle
    /\ ParseIdle
    /\ BuildIdle
    /\ pgNow = 0
    /\ pgEnv \in [artifact : BOOLEAN, chatbot : BOOLEAN, featureManagerJs : BOOLEAN,
                  calendarContainer : BOOLEAN,
                  params : {<<>>,
                            <<<<"d", "e", "v", "=", "t", "r", "u", "e">>>>,
                            <<<<"d", "e", "v", "=", "f", "a", "l", "s", "e">>>>,
                            << <<"p", "a", "g", "e", "=", "2">>,
                               <<"d", "e", "v", "=", "t", "r", "u", "e">> >>}]
    /\ pgFM = IF pgEnv.featureManagerJs THEN NewFeatureManager
              ELSE [NewFeatureManager EXCEPT !.phase = "absent"]
    /\ pgLoads = [l \in {"auto", "site"} |->
                    IF pgEnv.artifact THEN "settled" ELSE "pending"]
    /\ pgConfig = IF pgEnv.artifact THEN loadConfig_settle("compiled", pgEnv.chatbot)
                  ELSE JsNull
    /\ pgSM = IF pgEnv.artifact
              THEN SiteManager_init(NewSiteManager, pgConfig, pgFM, pgConfig, 0)
              ELSE NewSiteManager
    /\ pgChatbot = "timer"
    /\ pgBooking = [phase |-> "timer", attempts |-> 0, due |-> BookingDelay,
                    systems |-> {}]
    /\ pgCalls = {}
    /\ pgErrors = {}
    /\ RenderIdle

NextPage ==
    \/ LoadSettles
    \/ ChatbotTimer
    \/ FeatureManagerWakes
    \/ SiteManagerWakes
    \/ BookingWakes

SpecPage == InitPage /\ [][NextPage]_vars

\* the event loop runs every timer that is due; the URL and the chatbot toggle,
\* which no wait looks at, are fixed
InitPageFair ==
    /\ InitPage
    /\ pgEnv.params = <<>>
    /\ pgEnv.chatbot

SpecPageFair ==
    /\ InitPageFair
    /\ [][NextPage]_vars
    /\ WF_vars(ChatbotTimer)
    /\ WF_vars(FeatureManagerWakes)
    /\ WF_vars(SiteManagerWakes)
    /\ WF_vars(BookingWakes)

InitRender ==
    /\ WidgetsIdle
    /\ LoadIdle
    /\ ToggleIdle
    /\ AccessIdle
    /\ PanelIdle
    /\ ParseIdle
    /\ BuildIdle
    /\ PageIdle
    /\ rnAccreditations \in SeqUpTo({NaN} \cup {Num(n) : n \in 0..MaxClock}, 2)
    /\ rnNow \in 0..MaxClock
    /\ rnContainer = <<>>
    /\ rnPrevious = <<>>
    /\ rnRenderedAt = -1

NextRender ==
    \/ TimePasses
    \/ PopulateAccreditations

SpecRender == InitRender /\ [][NextRender]_vars

\* the page after DOMContentLoaded: the slider of static slides has started its
\* auto-play, the other two wait for the configuration
InitSlider ==
    /\ LoadIdle
    /\ ToggleIdle
    /\ AccessIdle
    /\ PanelIdle
    /\ ParseIdle
    /\ BuildIdle
    /\ PageIdle
    /\ RenderIdle
    /\ FormIdle
    /\ CalendarIdle
    /\ heroSlider = NewHeroSlider
    /\ testimonialsSlider = NewTestimonialsSlider
    /\ simpleSlider = startAutoPlay([autoPlayInterval |-> FALSE, intervals |-> 0])
    /\ docHidden = FALSE
    /\ slLast = "none"

NextSlider ==
    \/ HeroInit
    \/ HeroNavigate
    \/ HeroTick
    \/ HeroMouse
    \/ HeroDestroy
    \/ TestimonialsInit
    \/ TestimonialsNavigate
    \/ TestimonialsTick
    \/ TransitionEnds
    \/ TestimonialsMouse
    \/ SimpleSliderEvent
    \/ VisibilityChange

SpecSlider == InitSlider /\ [][NextSlider]_vars

\* the page with the contact and the booking form, on some day
InitForm ==
    /\ LoadIdle
    /\ ToggleIdle
    /\ AccessIdle
    /\ PanelIdle
    /\ ParseIdle
    /\ BuildIdle
    /\ PageIdle
    /\ RenderIdle
    /\ SliderIdle
    /\ CalendarIdle
    /\ foToday \in 1..MaxDay
    /\ foSubmits = 0
    /\ foPending = {}
    /\ submissions = <<>>
    /\ foValidated = {}
    /\ foRejected = 0

NextForm ==
    \/ SubmitForm
    \/ ProcessingDone

SpecForm == InitForm /\ [][NextForm]_vars

\* the booking page after CalendarManager.init
InitCalendar ==
    /\ LoadIdle
    /\ ToggleIdle
    /\ AccessIdle
    /\ PanelIdle
    /\ ParseIdle
    /\ BuildIdle
    /\ PageIdle
    /\ RenderIdle
    /\ SliderIdle
    /\ FormIdle
    /\ CalendarIdle

NextCalendar ==
    \/ SelectDate
    \/ SelectTimeSlot
    \/ SelectAppointmentType
    \/ ResetBookingFlow
    \/ ConfirmBooking
    \/ BookingCreated

SpecCalendar == InitCalendar /\ [][NextCalendar]_vars

-----------------------------------------------------------------------------
(* Claims about loadConfig *)

Settled(c) == calls[c].pc \in {"resolved", "rejected"}
Resolved(c) == calls[c].pc = "resolved"
\* the invocations that ran one of the three load paths themselves
Loaders == {c \in Callers : calls[c].path \in {"compiled", "parsed", "fallback"}}

\* C1: with no compiled artifact, however many loadConfig() calls are issued
\* before the first settles, the document is fetched exactly once and parsed at
\* most once, and all callers resolve with the same Configuration.
C1_OneFetchOneParse ==
    ~compiledLoaded =>
        /\ (\E c \in Callers : calls[c].pc # "idle") => fetchCount = 1
        /\ parseCount <= 1
        /\ \A c, d \in Callers :
              Resolved(c) /\ Resolved(d) => calls[c].result = calls[d].result

\* C2: loadConfig() never rejects, and under each fault (fetch rejection, HTTP
\* error status, parser-reported syntax error) it resolves with the hardcoded
\* default Configuration, in which all sections are populated.
C2_FallbackAllSections ==
    \A c \in Callers :
        /\ calls[c].pc # "rejected"
        /\ calls[c].fault # "none" =>
              /\ Resolved(c)
              /\ calls[c].result.keys = getFallbackConfig(calls[c].result.id).keys
              /\ calls[c].result.keys = AllSections

\* C3: on every load path the design tokens are on the page's root style scope
\* by the time the promise of loadConfig() resolves.
C3_StyledBeforeResolve ==
    \A c \in Callers : Resolved(c) => calls[c].styled

\* C4: a loadConfig() call made after some call has settled returns the
\* Configuration that is already loaded, and issues no fetch and no parse.
C4_MemoAfterSettle ==
    [][\A c \in Callers :
          (/\ calls[c].pc = "idle"
           /\ calls'[c].pc # "idle"
           /\ \E d \in Callers : Settled(d))
          => /\ calls'[c].pc = "resolved"
             /\ Truthy(config)
             /\ calls'[c].result = config
             /\ config' = config
             /\ fetchCount' = fetchCount
             /\ parseCount' = parseCount]_vars

\* C4 witness: late calls were answered from memory after a fallback load
C4_Witness ==
    \E c, d \in Callers :
        /\ calls[c].path = "memo"
        /\ calls[d].path = "fallback"
        /\ calls[c].result = calls[d].result

\* C5: when the compiled artifact is present and loaded at the first call, its
\* Configuration is adopted and no fetch is ever issued.
C5_CompiledNoFetch ==
    compiledLoaded =>
        /\ fetchCount = 0
        /\ \A c \in Callers :
              Resolved(c) => calls[c].result = compiledConfig /\ useCompiledConfig
                             /\ config = compiledConfig

\* C5 witness: the compiled path was taken and a later call returned its result
C5_Witness ==
    /\ compiledLoaded
    /\ \E c, d \in Callers : calls[c].path = "compiled" /\ calls[d].path = "memo"

\* C6: a page load runs exactly one of the three load paths, and what the
\* facade's state records once a path has ended tells the paths apart.
C6_OnePathRecorded ==
    /\ Cardinality(Loaders) <= 1
    /\ \A e1, e2 \in provLog :
          (e1.ld = e2.ld /\ e1.ucc = e2.ucc) => e1.path = e2.path

-----------------------------------------------------------------------------
(* Claims about isFeatureEnabled *)

\* some segment of the path is not a key of the node reached so far
RECURSIVE SegmentMissing(_, _)
SegmentMissing(node, pathParts) ==
    /\ pathParts # <<>>
    /\ \/ node.t # "object"
       \/ Head(pathParts) \notin DOMAIN node.f
       \/ SegmentMissing(node.f[Head(pathParts)], Tail(pathParts))

\* the node the path leads to (only used where no segment is missing)
RECURSIVE NodeAt(_, _)
NodeAt(node, pathParts) ==
    IF pathParts = <<>> THEN node
    ELSE NodeAt(node.f[Head(pathParts)], Tail(pathParts))

\* C7: whenever some segment of P is not present in the node reached so far,
\* isEnabled(P) returns true.
C7_MissingSegmentEnabled ==
    (tgCalled /\ SegmentMissing(tgToggles, tgPath)) => tgResult = TRUE

\* C8: whenever the walk of P ends at a node whose enabled field is the boolean
\* false or the string "false", isEnabled(P) returns false.
C8_DisabledNode ==
    (/\ tgCalled
     /\ ~SegmentMissing(tgToggles, tgPath)
     /\ NodeAt(tgToggles, tgPath).t = "object"
     /\ "enabled" \in DOMAIN NodeAt(tgToggles, tgPath).f
     /\ NodeAt(tgToggles, tgPath).f["enabled"] \in {Bool(FALSE), Str("false")})
    => tgResult = FALSE

\* C8 witness: gallery-page.instagram-feed.enabled = "false", read from the tree
C8_Witness ==
    /\ tgCalled
    /\ ~tgCompiled
    /\ tgPath = <<"gallery-page", "instagram-feed">>
    /\ ~SegmentMissing(tgToggles, tgPath)
    /\ NodeAt(tgToggles, tgPath) = Obj([k \in {"enabled"} |-> Str("false")])
    /\ tgResult = FALSE

-----------------------------------------------------------------------------
(* Claims about the accessor surface *)

\* the keys an accessor reads from the root of the configuration down
ReadPath(fn, args) ==
    CASE fn = "getValue" -> args
      [] fn = "getDesign" -> <<"design">>
      [] fn = "getTopBar" -> <<"top-bar">>
      [] fn = "getHeroSlider" -> <<"hero-slider">>
      [] fn = "getCompany" -> <<"company">>
      [] fn = "getServices" -> <<"services">>
      [] fn = "getTestimonials" -> <<"testimonials">>
      [] fn = "getAccreditations" -> <<"accreditations">>
      [] fn = "getPageConfig" -> <<"pages", args[1]>>
      [] fn = "getServiceAreas" -> <<"service-areas">>
      [] fn = "getBusinessPolicies" -> <<"business-policies">>
      [] fn = "getFormConfig" -> <<"forms", args[1]>>
      [] fn = "getTemplate" -> <<"templates", args[1]>>
      [] fn = "getAllTemplates" -> <<"templates", args[1]>>
      [] fn = "getNavigation" -> <<"ui", "navigation">>
      [] fn = "getButtonText" -> <<"ui", "buttons", args[1]>>
      [] fn = "getMessage" -> <<"ui", "messages">> \o args
      [] fn = "getLabel" -> <<"ui", "labels", args[1]>>
      [] fn = "getChatbotUI" -> <<"chatbot", "ui">>
      [] fn = "getFormField" -> <<"forms", args[1], "fields">>
      [] fn = "getFormFields" -> <<"forms", args[1], "fields">>
      [] fn = "isFeatureEnabled" -> <<"feature-toggles">> \o args

\* what the call asks for is not in the configuration
RequestAbsent ==
    /\ acCall.fn # "none"
    /\ SegmentMissing(acConfig, ReadPath(acCall.fn, acCall.args))

\* C10: on any configuration, also a partially populated one, an accessor asked
\* for a key or path that is absent from it does not throw.
C10_AccessorsTotal ==
    RequestAbsent => ~IsThrow(acResult)

\* C10 witness: getValue('nope.name') on the tree of a loaded configuration:
\* the first segment is missing and the reducer carries undefined to the end
C10_Witness ==
    /\ RequestAbsent
    /\ ~acCompiled
    /\ acConfig = FullConfig
    /\ acCall = [fn |-> "getValue", args |-> <<"nope", "name">>]
    /\ acResult = Undef

\* the call was answered by the facade itself, from the in-memory tree
ReadFromTree == acCall.fn # "none" /\ ~acCompiled

\* C11: when the services, testimonials or accreditations section is absent from
\* the configuration, getServices(), getTestimonials() and getAccreditations()
\* return the empty list [].
C11_AbsentListEmpty ==
    (/\ ReadFromTree
     /\ acCall.fn \in {"getServices", "getTestimonials", "getAccreditations"}
     /\ RequestAbsent)
    => acResult = Arr(<<>>)

\* C12: once a configuration is loaded, no accessor call changes its tree.
C12_TreeNeverWritten ==
    [][acConfig # JsNull => acConfig' = acConfig]_vars

\* C14: when the configuration came from the compiled artifact, a facade
\* accessor (the toggle resolver included) returns what the artifact's accessor
\* of the same name returns for the same arguments.
C14_DelegatesToArtifact ==
    (/\ acCall.fn # "none"
     /\ acCompiled
     /\ acCall.fn \in {"getDesign", "getTopBar", "getHeroSlider", "getPageConfig"}
           => acOptional)
    => acResult = compiled_accessor(acCall.fn, acConfig, acCall.args)

\* C14 witness: getTemplate in compiled mode hands back the artifact's template
C14_Witness ==
    /\ acCompiled
    /\ acCall.fn = "getTemplate"
    /\ acResult = compiled_accessor("getTemplate", acConfig, acCall.args)
    /\ acResult # TreeAccessor("getTemplate", acConfig, acCall.args)

\* C15: when the configuration was parsed or is the fallback, getTemplate(name,
\* index) returns the empty string for every name and index.
C15_NoTemplateUncompiled ==
    (ReadFromTree /\ acCall.fn = "getTemplate") => acResult = Str("")

\* C15 witness: getTemplate('service-card', 1) on a parsed configuration
C15_Witness ==
    /\ ReadFromTree
    /\ acConfig = FullConfig
    /\ acCall = [fn |-> "getTemplate", args |-> <<"service-card", 1>>]
    /\ acResult = Str("")

\* C16: for a key or dotted path that is absent from the configuration, the
\* label, button-text and message accessors return the requested key or path
\* itself.
C16_KeyAsFallbackText ==
    (/\ ReadFromTree
     /\ acCall.fn \in {"getButtonText", "getLabel", "getMessage"}
     /\ RequestAbsent)
    => acResult = Str(JoinDots(acCall.args))

-----------------------------------------------------------------------------
(* Claims about the developer panel *)

\* C13: after toggleFeature(P, v) on an existing toggle leaf P has completed,
\* the toggles have been re-applied: isEnabled(P) equals v and every element
\* gated by P on the page is shown exactly when v is true, whether the
\* configuration is the artifact's or not.
C13_OverrideApplied ==
    (/\ fmCall.status = "done"
     /\ ~SegmentMissing(fmToggles, fmCall.path)
     /\ NodeAt(fmToggles, fmCall.path).t = "object")
    => /\ isEnabled(fmInitialized, fmCompiled, fmToggles, fmCall.path) = fmCall.enabled
       /\ \A g \in Gates :
             (g.path = fmCall.path /\ g.page \in {"any", fmPage})
             => \A i \in 1..Len(fmDisplay[g.sel]) :
                    (fmDisplay[g.sel][i] = "") = fmCall.enabled

-----------------------------------------------------------------------------
(* Claims about the document parser *)

\* the children of node with tag name T, in document order
Siblings(node, T) == SelectSeq(node.kids, LAMBDA c : c.tag = T)

\* what the extractor makes of one child element taken alone
ParsedAlone(child) ==
    IF Len(child.kids) > 0 THEN parseNestedContent(child)
    ELSE Str(Concat(trim(textContent(child))))

\* C17: for an element with three child elements of one tag name the generic
\* extractor yields under that tag an array of length 3 in document order; for
\* a tag name with exactly one child it yields a single value, not an array.
C17_ThreeSiblingsArray ==
    psFn = "parseNestedContent" =>
      /\ (Len(psNode.kids) = 3 /\ Len(Siblings(psNode, psNode.kids[1].tag)) = 3)
         => /\ psResult.t = "object"
            /\ psResult.f[psNode.kids[1].tag].t = "array"
            /\ psResult.f[psNode.kids[1].tag].a =
                 [i \in 1..3 |-> ParsedAlone(psNode.kids[i])]
      /\ \A i \in 1..Len(psNode.kids) :
            Len(Siblings(psNode, psNode.kids[i].tag)) = 1
            => /\ psResult.t = "object"
               /\ psResult.f[psNode.kids[i].tag].t # "array"

\* under every tag name that more than one child of node carries, value holds
\* an array with one entry per such child in document order, and so on below
RECURSIVE RepeatsCollected(_, _)
RepeatsCollected(node, value) ==
    /\ value.t = "object"
    /\ \A T \in {node.kids[i].tag : i \in 1..Len(node.kids)} :
         LET same == Siblings(node, T)
         IN  /\ T \in DOMAIN value.f
             /\ IF Len(same) > 1
                THEN /\ value.f[T].t = "array"
                     /\ Len(value.f[T].a) = Len(same)
                     /\ \A i \in 1..Len(same) :
                          IF Len(same[i].kids) > 0
                          THEN RepeatsCollected(same[i], value.f[T].a[i])
                          ELSE value.f[T].a[i] = ParsedAlone(same[i])
                ELSE Len(same[1].kids) > 0 => RepeatsCollected(same[1], value.f[T])

\* C18: in a free-form section, at every nesting level, the value parsed under
\* a tag name that more than one child carries is an array with one entry per
\* such child in document order: no repeated sibling is dropped or overwritten.
C18_RepeatedSiblingsKept ==
    psFn \in {"parseNestedContent", "parsePageContent"}
    => RepeatsCollected(psNode, psResult)

\* the service elements of the services section of the document
ServiceElements ==
    IF Siblings(psNode, "services") = <<>> THEN <<>>
    ELSE Siblings(Siblings(psNode, "services")[1], "service")

\* C19: for a document whose services section holds n service elements,
\* getServices() after the parse returns n records in document order, each with
\* the id of its element.
C19_ServicesInOrder ==
    (psFn = "parseServices" /\ Siblings(psNode, "services") # <<>>)
    => /\ getList_tree(psResult, "services").t = "array"
       /\ Len(getList_tree(psResult, "services").a) = Len(ServiceElements)
       /\ \A i \in 1..Len(ServiceElements) :
            getList_tree(psResult, "services").a[i].f["id"] = ServiceElements[i].id

\* C19 witness: two services, kitchens then bathrooms
C19_Witness ==
    /\ psFn = "parseServices"
    /\ Len(ServiceElements) = 2
    /\ ServiceElements[1].id = Str("kitchens")
    /\ ServiceElements[2].id = Str("bathrooms")
    /\ getList_tree(psResult, "services").a[1].f["id"] = Str("kitchens")
    /\ getList_tree(psResult, "services").a[2].f["id"] = Str("bathrooms")

\* the characters of raw without the whitespace at its two ends
Stripped(raw) ==
    CHOOSE t \in {SubSeq(raw, i, j) : i \in 1..(Len(raw) + 1), j \in 0..Len(raw)} :
      \E i \in 1..(Len(raw) + 1), j \in 0..Len(raw) :
        /\ t = SubSeq(raw, i, j)
        /\ \A k \in 1..Len(raw) : (k < i \/ k > j) => raw[k] \in Whitespace
        /\ i <= j => (raw[i] \notin Whitespace /\ raw[j] \notin Whitespace)

-----------------------------------------------------------------------------
(* Further claims about isFeatureEnabled *)

\* C30: isEnabled(P) returns true when P leads to an interior toggle node, one
\* that has child toggles but no enabled field of its own.
C30_InteriorNodeEnabled ==
    (/\ tgCalled
     /\ ~SegmentMissing(tgToggles, tgPath)
     /\ NodeAt(tgToggles, tgPath).t = "object"
     /\ DOMAIN NodeAt(tgToggles, tgPath).f # {}
     /\ "enabled" \notin DOMAIN NodeAt(tgToggles, tgPath).f)
    => tgResult = TRUE

-----------------------------------------------------------------------------
(* Further claims about the document parser *)

\* the toggle elements of the document that end up in the parsed tree, each
\* with the path of tag names that leads to it
RECURSIVE KeptToggles(_, _)
KeptToggles(node, prefix) ==
    UNION {LET same == Siblings(node, T)
               child == same[Len(same)]
           IN  IF Len(child.kids) > 0
               THEN KeptToggles(child, Append(prefix, T))
               ELSE {[path |-> Append(prefix, T), el |-> child]}
           : T \in {node.kids[i].tag : i \in 1..Len(node.kids)}}

\* C21: an enabled attribute the parser reads ends up as a boolean that is true
\* exactly when the attribute is the literal string "true".
C21_EnabledIsLiteralTrue ==
    (psFn = "parseFeatureToggles" /\ Siblings(psNode, "feature-toggles") # <<>>)
    => \A k \in KeptToggles(Siblings(psNode, "feature-toggles")[1], <<>>) :
         /\ ~SegmentMissing(psResult.f["feature-toggles"], k.path)
         /\ NodeAt(psResult.f["feature-toggles"], k.path) =
              Obj([x \in {"enabled"} |-> Bool(k.el.enabled = Str("true"))])

\* C21 witness: enabled="TRUE" parsed to false next to enabled="true" parsed to true
C21_Witness ==
    /\ psFn = "parseFeatureToggles"
    /\ Siblings(psNode, "feature-toggles") # <<>>
    /\ \E k \in KeptToggles(Siblings(psNode, "feature-toggles")[1], <<>>) :
          /\ k.el.enabled = Str("TRUE")
          /\ NodeAt(psResult.f["feature-toggles"], k.path).f["enabled"] = Bool(FALSE)
    /\ \E k \in KeptToggles(Siblings(psNode, "feature-toggles")[1], <<>>) :
          /\ k.el.enabled = Str("true")
          /\ NodeAt(psResult.f["feature-toggles"], k.path).f["enabled"] = Bool(TRUE)

-----------------------------------------------------------------------------
(* Claims about the build step *)

\* C23: two runs of the compiler on the same source document leave
\* byte-identical artifacts.
C23_CompileTwiceSameArtifact ==
    \A i, j \in 1..Len(bdLog) :
        (/\ i < j
         /\ bdLog[i].source = bdLog[j].source
         /\ bdLog[i].errorlevel = 0
         /\ bdLog[j].errorlevel = 0)
        => bdLog[i].after = bdLog[j].after

\* C23 witness: two successful runs on an unchanged source, with a run on another
\* version of the document in between
C23_Witness ==
    /\ Len(bdLog) = 3
    /\ bdLog[1].source = bdLog[3].source
    /\ bdLog[2].source.text # bdLog[1].source.text
    /\ \A i \in 1..3 : bdLog[i].errorlevel = 0
    /\ bdLog[2].after # bdLog[1].after
    /\ bdLog[3].after = bdLog[1].after

\* C24: a run on a source document that does not parse ends with a non-zero
\* result and leaves the artifact it found; nothing partial is written.
C24_ParseErrorKeepsArtifact ==
    \A i \in 1..Len(bdLog) :
        (bdPython /\ ~bdLog[i].source.wellFormed)
        => /\ bdLog[i].errorlevel # 0
           /\ bdLog[i].after = bdLog[i].before

\* C24 witness: a broken edit after a successful build; the build fails and the
\* earlier artifact is still in place
C24_Witness ==
    /\ Len(bdLog) >= 2
    /\ bdLog[1].errorlevel = 0
    /\ ~bdLog[2].source.wellFormed
    /\ bdLog[2].errorlevel # 0
    /\ bdLog[2].before # JsNull
    /\ bdArtifact = bdLog[1].after

-----------------------------------------------------------------------------
(* Claims about page start-up *)

\* the feature manager answers from the configuration: initialized, with a parser
ManagerReady == pgFM.initialized /\ pgFM.xmlParser

\* the loaded configuration switches the chatbot off
ChatbotDisabled ==
    /\ pgConfig # JsNull
    /\ pgConfig.toggles.f["chatbot"].f["enabled"] = Bool(FALSE)

C27_EnabledWhileNotReady ==
    /\ \A c \in pgCalls : ~c.ready => c.result = TRUE
    /\ (pgEnv # JsNull /\ ~ManagerReady)
           => \A p \in FeaturePaths \cup {<<"navigation">>} :
                 isEnabled(ManagerReady, CompiledOf(pgConfig), TogglesOf(pgConfig), p)
    /\ pgFM.phase = "failed"
           => \A sel \in DOMAIN pgFM.display : pgFM.display[sel] = <<"">>

\* C27 witness: after the wait has failed a configuration is loaded, and
\* SiteManager's question about a feature is answered with true
C27_Witness ==
    \E c \in pgCalls :
        /\ c.waitFailed
        /\ ~c.ready
        /\ c.config # JsNull
        /\ c.result = TRUE

\* C28: when the loaded configuration disables the chatbot, the chatbot has
\* created no UI, whatever the order of load, feature-manager start and timers.
C28_DisabledChatbotNeverCreated ==
    ChatbotDisabled => pgChatbot # "created"

\* C29: once addDevPanel has run the panel exists exactly when the URL has the
\* parameter dev=true; before that there is no panel.
C29_PanelOnlyWithDevFlag ==
    LET flag == \E i \in 1..Len(pgEnv.params) :
                    pgEnv.params[i] = <<"d", "e", "v", "=", "t", "r", "u", "e">>
    IN  IF pgFM.phase \in {"ready", "failed"}
        THEN pgFM.panel <=> flag
        ELSE ~pgFM.panel

\* C29 witness: addDevPanel has run on a URL with other parameters only, and on
\* a page whose feature manager is initialized; there is no panel
C29_Witness ==
    /\ pgFM.phase = "ready"
    /\ pgEnv.params = <<<<"d", "e", "v", "=", "f", "a", "l", "s", "e">>>>
    /\ ~pgFM.panel

-----------------------------------------------------------------------------
(* Claims about populateAccreditations *)

\* C26: the flags in the grid are those of the last render, each computed from
\* the certificate's validity date and the date at that render: valid exactly
\* when the validity date is a date later than it.
C26_ValidityRecomputed ==
    rnRenderedAt >= 0
    => /\ Len(rnContainer) = Len(rnAccreditations)
       /\ \A i \in 1..Len(rnAccreditations) :
             rnContainer[i] = "valid"
             <=> (~rnAccreditations[i].nan /\ rnAccreditations[i].n > rnRenderedAt)

\* C26 witness: a certificate shown as valid by one render is shown as expired by
\* the next, the date having passed in between
C26_Witness ==
    /\ rnRenderedAt >= 0
    /\ \E i \in 1..Len(rnContainer) :
          /\ i <= Len(rnPrevious)
          /\ rnPrevious[i] = "valid"
          /\ rnContainer[i] = "expired"

-----------------------------------------------------------------------------
(* Claims about start-up, the parser and the widgets of the page *)

\* C31: on a well-formed free-form element, whatever mix of text leaves and
\* elements with children share a tag name, the parser returns and does not throw.
C31_ParserNeverThrows ==
    psFn \in {"parseNestedContent", "parsePageContent"} => ~IsThrow(psResult)

\* C32: each start-up wait (waitForXMLParser, waitForFeatureManager,
\* waitForSystems) makes at most 20 checks, and with the timers running each of
\* them ends, ready or not: the feature manager ends initialized or failed,
\* SiteManager and the booking integration go on with their init.
C32_WaitsTerminate ==
    /\ [](/\ pgFM.attempts <= 20
          /\ pgSM.attempts <= 20
          /\ pgBooking.attempts <= 20)
    /\ (pgFM.phase \in {"timer", "waiting"}) ~> (pgFM.phase \in {"ready", "failed"})
    /\ (pgSM.phase = "waiting") ~> (pgSM.phase = "done")
    /\ (pgBooking.phase \in {"timer", "waiting"}) ~> (pgBooking.phase = "done")

\* C32 witness: no dependency ever became ready and all three waits have ended
\* after their 20 checks
C32_Witness ==
    /\ pgFM.phase = "failed" /\ pgFM.attempts = 20
    /\ pgSM.phase = "done" /\ pgSM.attempts = 20
    /\ pgBooking.phase = "done" /\ pgBooking.attempts = 20
    /\ "calendar" \notin pgBooking.systems

\* C33: after applyPageToggles() has completed, every element of the page that a
\* mapped selector matches is hidden (display none, data-feature-disabled="true")
\* exactly when isEnabled of its feature path is false; so an element hidden by
\* an earlier apply is shown again once its feature is enabled.
C33_HiddenIffDisabled ==
    \A g \in Gates :
        g.page \in {"any", fmPage}
        => \A i \in 1..Len(fmDisplay[g.sel]) :
               (fmDisplay[g.sel][i] = "none")
                  = ~isEnabled(fmInitialized, fmCompiled, fmToggles, g.path)

-----------------------------------------------------------------------------
(* Claims about the sliders *)

\* C34: after any sequence of next, previous, dot, keyboard, swipe and auto-play
\* operations the hero slider's currentSlide lies within 0..n-1 for its n slides;
\* a request beyond either end wraps around.
C34_CurrentSlideInRange ==
    heroSlider.slideCount >= 1
    => heroSlider.currentSlide \in 0..(heroSlider.slideCount - 1)

\* C34 witness: previous on the first of three slides wrapped to the last one
C34_Witness ==
    /\ slLast = "prev"
    /\ heroSlider.slideCount = 3
    /\ heroSlider.currentSlide = 2

\* C35: every slider has at most one auto-play interval timer active at any time,
\* and none while its handle is cleared (after stopAutoPlay) or after destroy.
C35_OneIntervalTimer ==
    /\ heroSlider.intervals <= 1
    /\ testimonialsSlider.intervals <= 1
    /\ simpleSlider.intervals <= 1
    /\ ~heroSlider.autoPlayTimer => heroSlider.intervals = 0
    /\ ~testimonialsSlider.autoPlayTimer => testimonialsSlider.intervals = 0
    /\ ~simpleSlider.autoPlayInterval => simpleSlider.intervals = 0
    /\ heroSlider.phase = "destroyed" => heroSlider.intervals = 0

\* C35 witness: the hero slider's timer was reset by a tick that advanced the
\* slide, the testimonials slider is stopped under the pointer
C35_Witness ==
    /\ slLast = "tick-hero"
    /\ heroSlider.currentSlide = 1
    /\ heroSlider.intervals = 1
    /\ testimonialsSlider.hover
    /\ testimonialsSlider.intervals = 0
    /\ simpleSlider.intervals = 1

\* C36: between mouseenter and mouseleave on a slider, auto-play never advances
\* its slide, whatever other events (dot click, key press, swipe, visibility
\* change) occur in between.
C36_NoAdvanceUnderPointer ==
    [][/\ (slLast' = "tick-hero" /\ heroSlider.hover)
           => heroSlider'.currentSlide = heroSlider.currentSlide
       /\ (slLast' = "tick-testimonials" /\ testimonialsSlider.hover)
           => testimonialsSlider'.currentIndex = testimonialsSlider.currentIndex]_vars

\* C37: from the end of init on, exactly one testimonial slide is active (active
\* class and aria-hidden="false"), and it is the slide at currentIndex.
C37_OneActiveSlide ==
    testimonialsSlider.phase = "ready"
    => {i \in DOMAIN testimonialsSlider.slides :
           /\ testimonialsSlider.slides[i].active
           /\ ~testimonialsSlider.slides[i].ariaHidden}
       = {testimonialsSlider.currentIndex + 1}

-----------------------------------------------------------------------------
(* Claims about the form system and the booking calendar *)

\* C38: a submission is appended to submissions only after validateForm returned
\* valid for its form data; data with a missing (or blank) required field, an
\* invalid email, an invalid UK phone number or a preferred date in the past
\* never reaches processSubmission or submissions.
C38_OnlyValidSubmitted ==
    LET InvalidEmails == {<<"a", "@", "b">>, <<"a", "@", "b", " ", ".", "c">>}
        InvalidPhones == {<<"0", "7", "1", "2", "3", "4", "5", "6", "7">>,
                          <<"+", "4", "4", "0", "1", "2", "3", "4", "5", "6", "7", "8">>}
        PastDates == {<<Digits[d + 1]>> : d \in 1..(foToday - 1)}
        Blank(text) == \A i \in DOMAIN text : text[i] = " "
        Reached == {[type |-> p.type, data |-> p.data] : p \in foPending}
                      \cup {[type |-> submissions[i].type, data |-> submissions[i].data] :
                               i \in DOMAIN submissions}
    IN  \A s \in Reached :
           /\ s \in foValidated
           /\ \A i \in DOMAIN forms[s.type].requiredFields :
                 ~Blank(s.data[forms[s.type].requiredFields[i]])
           /\ s.data["email"] \notin InvalidEmails
           /\ s.data["phone"] \notin InvalidPhones
           /\ s.data["preferred-date"] \notin PastDates

\* C38 witness: a booking for today was stored after another submit was refused
C38_Witness ==
    /\ foRejected = 1
    /\ foPending = {}
    /\ Len(submissions) = 1
    /\ submissions[1].type = "booking"
    /\ foToday = 2
    /\ submissions[1].data["preferred-date"] = <<"2">>

\* C39: no two confirmed bookings share the same date and time slot, and once a
\* slot is booked isSlotAvailable returns false for it, also when the booking
\* flow was used again before the first confirmation had finished (the slot of
\* a confirmation that is still in progress is left aside).
C39_NoDoubleBooking ==
    /\ \A a, b \in appointments :
          (a.date = b.date /\ a.time = b.time) => a.id = b.id
    /\ caConfirming = JsNull
           => \A a \in appointments : ~isSlotAvailable(availableSlots, a.date, a.time)

=============================================================================
